---- MODULE Spec2Model ----
(***************************************************************************)
(* The AuditTrail ledger (smart-contracts/contracts/AuditTrail.sol) as a   *)
(* state machine: one action per external function of the contract, each   *)
(* call either reverting (no storage write) or applying all its writes.    *)
(* With it: the commit pipeline of the specification, the App component of  *)
(* the frontend (unnamed/part_003) and the start script of the services    *)
(* (smart-contracts/scripts/deploy.js).                                    *)
(***************************************************************************)
EXTENDS Integers, Sequences, FiniteSets, TLC

(***************************************************************************)
(* Bounds of the model.                                                    *)
(***************************************************************************)
\* block.timestamp runs over 1..MaxTime
MaxTime == 2
\* at most MaxAuthEvents SMEAuthorized events are emitted after construction
MaxAuthEvents == 2
\* the commit pipeline gives up after MaxAttempts attempts of a store or ledger call
MaxAttempts == 2
\* submissions the commit pipeline handles
NumSubmissions == 2
\* submissions handled while the ledger also takes direct calls
NumSolo == 1

(***************************************************************************)
(* Program constants and input domains.                                    *)
(***************************************************************************)
\* address(0)
ZeroAddress == 0
\* the deployer: msg.sender of the constructor, Ownable's owner
Owner == 1
\* validTokenId: bytes(_tokenId).length <= 64
MaxTokenIdLen == 64
\* bytes32(0)
ZeroHash == 0

Addresses == {ZeroAddress, Owner, 2}
\* msg.sender is never address(0)
Senders == Addresses \ {ZeroAddress}
\* a 65-byte token id, one byte over the limit
LongTokenId == "TXN_6789012345678901234567890123456789012345678901234567890123456"
TokenIds == {"", "T1", "T2", LongTokenId}
TransactionTypes == {"", "PAYMENT"}
Amounts == {0, 100}
\* _dataHash of logTransaction; _expectedHash of verifyDataIntegrity
DataHashes == {ZeroHash, 1}
ExpectedHashes == {ZeroHash, 1, 2}
IpfsHashes == {"", "QmA"}
\* <<_transactionType, _amount, _dataHash, _ipfsHash>> of the logTransaction calls:
\* all four valid, each one invalid alone, all four invalid
LogFields ==
    {<<"PAYMENT", 100, 1, "QmA">>, <<"", 100, 1, "QmA">>, <<"PAYMENT", 0, 1, "QmA">>,
     <<"PAYMENT", 100, ZeroHash, "QmA">>, <<"PAYMENT", 100, 1, "">>, <<"", 0, ZeroHash, "">>}
\* the argument lists of batchAuthorizeSMEs: up to two entries each
SmeLists == {<<>>} \cup {<<x>> : x \in Addresses} \cup {<<x, y>> : x \in Addresses, y \in Addresses}
StatusLists == {<<>>} \cup {<<x>> : x \in BOOLEAN} \cup {<<x, y>> : x \in BOOLEAN, y \in BOOLEAN}

\* revert reasons
OK == "ok"
ErrNotAuthorized == "AuditTrail: Not authorized SME"
ErrPaused == "Pausable: paused"
ErrNotPaused == "Pausable: not paused"
ErrTokenEmpty == "AuditTrail: Token ID cannot be empty"
ErrTokenTooLong == "AuditTrail: Token ID too long"
ErrAmount == "AuditTrail: Amount must be greater than zero"
ErrTokenExists == "AuditTrail: Token already exists"
ErrDataHash == "AuditTrail: Invalid data hash"
ErrTxType == "AuditTrail: Transaction type required"
ErrIpfsHash == "AuditTrail: IPFS hash required"
ErrNotOwner == "Ownable: caller is not the owner"
ErrInvalidSME == "AuditTrail: Invalid SME address"
ErrExpectedHash == "AuditTrail: Invalid expected hash"
ErrLengthMismatch == "AuditTrail: Arrays length mismatch"
ErrEmptyArrays == "AuditTrail: Empty arrays"

VARIABLES
    auditTrails,        \* mapping(address => Transaction[])
    tokenExists,        \* mapping(string => bool)
    authorizedSMEs,     \* mapping(address => bool)
    tokenToSME,         \* mapping(string => address)
    transactionCounts,  \* mapping(address => uint256)
    totalTransactions,  \* uint256
    paused,             \* Pausable._paused
    events,             \* the contract's event log (TransactionLogged, SMEAuthorized)
    blockTimestamp,     \* block.timestamp
    lastCall,           \* the last external call and its outcome
    sub,                \* commit pipeline: the state machine of each submission
    keyLock,            \* commit pipeline: the holder of each idempotency key
    store,              \* content store: the documents it holds
    orphans,            \* content pointers flagged for reconciliation
    web3,               \* App: the Web3 instance is set
    account,            \* App: useState('')
    chainId,            \* App: useState(null)
    isConnected,        \* App: useState(false)
    isLoading,          \* App: useState(true)
    smeData,            \* App: useState(null)
    networkError,       \* App: a network error message is set
    ethereum,           \* the browser: window.ethereum is present, absent, or the page not loaded
    walletAccounts,     \* the wallet: the accounts it exposes to the page
    initializing,       \* App: the position and the locals of initializeWeb3
    connecting,         \* App: the position of connectWallet
    pendingChecks,      \* App: the checkSMERegistration calls nobody awaits
    scriptPc,           \* start script: the command to run next
    exitStatus,         \* start script: running, or how it ended
    attempt,            \* start script: the local `attempt` of wait_for_service
    observedUp,         \* start script: the services a poll has seen Up
    started,            \* start script: the services `docker compose up -d` was run for
    announced           \* start script: the final success message is printed

ledgerVars == <<auditTrails, tokenExists, authorizedSMEs, tokenToSME,
                transactionCounts, totalTransactions, paused, events>>
pipeVars == <<sub, keyLock, store, orphans>>
vars == <<auditTrails, tokenExists, authorizedSMEs, tokenToSME,
          transactionCounts, totalTransactions, paused, events,
          blockTimestamp, lastCall, sub, keyLock, store, orphans,
          web3, account, chainId, isConnected, isLoading, smeData, networkError,
          ethereum, walletAccounts, initializing, connecting, pendingChecks,
          scriptPc, exitStatus, attempt, observedUp, started, announced>>
appVars == <<web3, account, chainId, isConnected, isLoading, smeData, networkError,
             ethereum, walletAccounts, initializing, connecting, pendingChecks>>
startVars == <<scriptPc, exitStatus, attempt, observedUp, started, announced>>
hostVars == <<appVars, startVars>>

(***************************************************************************)
(* The App component (unnamed/part_003) and the start script               *)
(* (smart-contracts/scripts/deploy.js): their values and first state.      *)
(***************************************************************************)
\* useState(''): no account
NoAccount == ""
\* the addresses the wallet may expose
WalletAddresses == {"0xA", "0xB"}
\* what eth.getAccounts and accountsChanged deliver: the handlers read accounts[0] only
AccountLists == {<<>>} \cup {<<a>> : a \in WalletAddresses}
\* useState(null) of chainId
NoChain == 0
\* validateNetwork: the supported networks
supportedNetworks == {1, 5, 11155111, 1337}
\* the networks the wallet may be on: a supported one and an unsupported one
NetworkIds == {1337, 31337}
\* useState(null) of smeData
NoData == [registered |-> FALSE, wallet |-> NoAccount]
\* the statistics the backend returns for a registered wallet
StatsOf(a) == [registered |-> TRUE, wallet |-> a]
\* local max_attempts=30 of wait_for_service
max_attempts == 30
\* the services the script waits for
Infrastructure == {"postgres", "redis", "ipfs"}
Waited == Infrastructure \cup {"backend", "frontend", "nginx"}

InitHost ==
    /\ web3 = FALSE
    /\ account = NoAccount
    /\ chainId = NoChain
    /\ isConnected = FALSE
    /\ isLoading = TRUE
    /\ smeData = NoData
    /\ networkError = FALSE
    /\ ethereum = "unknown"
    /\ walletAccounts = <<>>
    /\ initializing = [pc |-> "unmounted", networkId |-> NoChain, account |-> NoAccount]
    /\ connecting = [pc |-> "idle", account |-> NoAccount]
    /\ pendingChecks = {}
    /\ scriptPc = 1
    /\ exitStatus = "running"
    /\ attempt = 1
    /\ observedUp = {}
    /\ started = {}
    /\ announced = FALSE

(***************************************************************************)
(* struct Transaction and the zero-initialised `emptyTx`.                  *)
(***************************************************************************)
Transaction(t, sme, ts, ty, a, h, p, v) ==
    [tokenId |-> t, smeAddress |-> sme, timestamp |-> ts, transactionType |-> ty,
     amount |-> a, dataHash |-> h, ipfsHash |-> p, isVerified |-> v]

emptyTx == Transaction("", ZeroAddress, 0, "", 0, ZeroHash, "", FALSE)

\* the outcome of a call: ok with a return value, or reverted with a reason
Returned(op, ret) == [op |-> op, ok |-> TRUE, reason |-> OK, ret |-> ret]

Reverted(op, why) == [op |-> op, ok |-> FALSE, reason |-> why, ret |-> FALSE]

(***************************************************************************)
(* Commit pipeline and content store client (spec.md 4.3, 4.4, 5).         *)
(***************************************************************************)
SubIds == 1..NumSubmissions
SoloIds == 1..NumSolo
NoSubmission == 0
SubTokenIds == {"T1", "T2"}
\* document bytes; EmptyDoc is the malformed input
EmptyDoc == 0
Docs == {EmptyDoc, 1, 2}
\* the metadata every submission carries
SubType == "PAYMENT"
SubAmount == 100

\* the content hash the client computes locally from the bytes
Hash(d) == ((d * 167) + 13) % 251

\* the content address the store returns for the bytes
PointerOf(d) == IF d = 1 THEN "QmA" ELSE IF d = 2 THEN "QmB" ELSE "QmEmpty"

idleSubmission ==
    [state |-> "Idle", principal |-> ZeroAddress, tokenId |-> "", doc |-> EmptyDoc,
     contentHash |-> ZeroHash, contentPointer |-> "", storeAttempts |-> 0,
     ledgerAttempts |-> 0, reply |-> "none", reason |-> OK, ackLost |-> FALSE]

\* faulty variant of revert: the rejection is reported but the total stays bumped
revert_KeepsTotal(op, why) ==
    /\ lastCall' = Reverted(op, why)
    /\ totalTransactions' = totalTransactions + 1
    /\ UNCHANGED <<auditTrails, tokenExists, authorizedSMEs, tokenToSME,
                   transactionCounts, paused, events>>

\* a failed require reverts the call: the reason is reported, no write is kept
revert(op, why) ==
    /\ lastCall' = Reverted(op, why)
    /\ UNCHANGED ledgerVars

(***************************************************************************)
(* Modifiers: the condition each one requires.                             *)
(***************************************************************************)
\* faulty variant of onlyAuthorizedSME: the modifier lets every caller through
onlyAuthorizedSME_Off(sender) == TRUE

onlyAuthorizedSME(sender) == authorizedSMEs[sender]

\* faulty variant of whenNotPaused: the pause flag is not looked at
whenNotPaused_Off == TRUE

whenNotPaused == ~paused

whenPaused == paused

\* faulty variant of onlyOwner: the owner passes only while its flag is set
onlyOwner_Authorized(sender) == sender = Owner /\ authorizedSMEs[sender]

\* faulty variant of onlyOwner: every caller passes
onlyOwner_Any(sender) == TRUE

onlyOwner(sender) == sender = Owner

\* faulty variant of validTokenId: the length of the token id is not bounded
validTokenId_NoLimit(t) == IF ~(Len(t) > 0) THEN ErrTokenEmpty ELSE OK

\* validTokenId: the reason its first failing require gives, or OK
validTokenId(t) ==
    IF ~(Len(t) > 0) THEN ErrTokenEmpty
    ELSE IF ~(Len(t) <= MaxTokenIdLen) THEN ErrTokenTooLong
    ELSE OK

validAmount(a) == a > 0

(***************************************************************************)
(* constructor                                                             *)
(***************************************************************************)
SMEAuthorized(sme, status) == [name |-> "SMEAuthorized", sme |-> sme, status |-> status]

\* faulty variant of Init: the constructor does not authorize the deployer
Init_NobodyAuthorized ==
    /\ auditTrails = [a \in Addresses |-> <<>>]
    /\ tokenExists = [t \in TokenIds |-> FALSE]
    /\ authorizedSMEs = [a \in Addresses |-> FALSE]
    /\ tokenToSME = [t \in TokenIds |-> ZeroAddress]
    /\ transactionCounts = [a \in Addresses |-> 0]
    /\ totalTransactions = 0
    /\ paused = FALSE
    /\ events = <<SMEAuthorized(Owner, TRUE)>>
    /\ blockTimestamp = 1
    /\ lastCall = Returned("constructor", TRUE)
    /\ sub = [i \in SubIds |-> idleSubmission]
    /\ keyLock = [t \in SubTokenIds |-> NoSubmission]
    /\ store = {}
    /\ orphans = {}
    /\ InitHost

Init ==
    /\ auditTrails = [a \in Addresses |-> <<>>]
    /\ tokenExists = [t \in TokenIds |-> FALSE]
    /\ authorizedSMEs = [a \in Addresses |-> a = Owner]
    /\ tokenToSME = [t \in TokenIds |-> ZeroAddress]
    /\ transactionCounts = [a \in Addresses |-> 0]
    /\ totalTransactions = 0
    /\ paused = FALSE
    /\ events = <<SMEAuthorized(Owner, TRUE)>>
    /\ blockTimestamp = 1
    /\ lastCall = Returned("constructor", TRUE)
    /\ sub = [i \in SubIds |-> idleSubmission]
    /\ keyLock = [t \in SubTokenIds |-> NoSubmission]
    /\ store = {}
    /\ orphans = {}
    /\ InitHost

(***************************************************************************)
(* authorizeSME                                                            *)
(***************************************************************************)
AuthEventCount == Len(SelectSeq(events, LAMBDA e : e.name = "SMEAuthorized")) - 1

\* faulty variant of authorizeSMERevert: the zero address is let through
authorizeSMERevert_ZeroAllowed(sender, sme) ==
    IF ~onlyOwner(sender) THEN ErrNotOwner ELSE OK

authorizeSMERevert(sender, sme) ==
    IF ~onlyOwner(sender) THEN ErrNotOwner
    ELSE IF ~(sme # ZeroAddress) THEN ErrInvalidSME
    ELSE OK

\* faulty variant of authorizeSME: deauthorizing a principal deletes its trail
authorizeSME_DropsTrail(sender, sme, status) ==
    /\ AuthEventCount < MaxAuthEvents
    /\ LET why == authorizeSMERevert(sender, sme) IN
       IF why # OK
       THEN revert("authorizeSME", why)
       ELSE /\ authorizedSMEs' = [authorizedSMEs EXCEPT ![sme] = status]
            /\ auditTrails' = IF status THEN auditTrails
                              ELSE [auditTrails EXCEPT ![sme] = <<>>]
            /\ events' = Append(events, SMEAuthorized(sme, status))
            /\ lastCall' = Returned("authorizeSME", TRUE)
            /\ UNCHANGED <<tokenExists, tokenToSME, transactionCounts,
                           totalTransactions, paused>>
    /\ UNCHANGED blockTimestamp

authorizeSME(sender, sme, status) ==
    /\ AuthEventCount < MaxAuthEvents
    /\ LET why == authorizeSMERevert(sender, sme) IN
       IF why # OK
       THEN revert("authorizeSME", why)
       ELSE /\ authorizedSMEs' = [authorizedSMEs EXCEPT ![sme] = status]
            /\ events' = Append(events, SMEAuthorized(sme, status))
            /\ lastCall' = Returned("authorizeSME", TRUE)
            /\ UNCHANGED <<auditTrails, tokenExists, tokenToSME, transactionCounts,
                           totalTransactions, paused>>
    /\ UNCHANGED blockTimestamp

(***************************************************************************)
(* logTransaction                                                          *)
(***************************************************************************)
\* faulty variant of TransactionLogged: the amount is left out of the event
TransactionLogged_NoAmount(t, sme, ts, h, ty, a) ==
    [name |-> "TransactionLogged", tokenId |-> t, sme |-> sme, timestamp |-> ts,
     dataHash |-> h, transactionType |-> ty, amount |-> 0]

TransactionLogged(t, sme, ts, h, ty, a) ==
    [name |-> "TransactionLogged", tokenId |-> t, sme |-> sme, timestamp |-> ts,
     dataHash |-> h, transactionType |-> ty, amount |-> a]

\* faulty variant of logTransactionRevert: whenNotPaused runs before onlyAuthorizedSME
logTransactionRevert_PausedFirst(sender, t, ty, a, h, p) ==
    IF ~whenNotPaused THEN ErrPaused
    ELSE IF ~onlyAuthorizedSME(sender) THEN ErrNotAuthorized
    ELSE IF validTokenId(t) # OK THEN validTokenId(t)
    ELSE IF ~validAmount(a) THEN ErrAmount
    ELSE IF ~(~tokenExists[t]) THEN ErrTokenExists
    ELSE IF ~(h # ZeroHash) THEN ErrDataHash
    ELSE IF ~(Len(ty) > 0) THEN ErrTxType
    ELSE IF ~(Len(p) > 0) THEN ErrIpfsHash
    ELSE OK

\* the modifiers in their declared order, then the requires of the body
logTransactionRevert(sender, t, ty, a, h, p) ==
    IF ~onlyAuthorizedSME(sender) THEN ErrNotAuthorized
    ELSE IF ~whenNotPaused THEN ErrPaused
    ELSE IF validTokenId(t) # OK THEN validTokenId(t)
    ELSE IF ~validAmount(a) THEN ErrAmount
    ELSE IF ~(~tokenExists[t]) THEN ErrTokenExists
    ELSE IF ~(h # ZeroHash) THEN ErrDataHash
    ELSE IF ~(Len(ty) > 0) THEN ErrTxType
    ELSE IF ~(Len(p) > 0) THEN ErrIpfsHash
    ELSE OK

\* faulty variant of newTx: the record names the owner of the contract
newTx_NamesOwner(sender, t, ty, a, h, p) ==
    Transaction(t, Owner, blockTimestamp, ty, a, h, p, TRUE)

\* faulty variant of newTx: the record is stored unverified
newTx_Unverified(sender, t, ty, a, h, p) ==
    Transaction(t, sender, blockTimestamp, ty, a, h, p, FALSE)

newTx(sender, t, ty, a, h, p) ==
    Transaction(t, sender, blockTimestamp, ty, a, h, p, TRUE)

\* faulty variant of pushTx: the new record is put in front
pushTx_Front(trail, tx) == <<tx>> \o trail

\* auditTrails[msg.sender].push(newTx)
pushTx(trail, tx) == Append(trail, tx)

\* faulty variant of markToken: the token is never marked as used
markToken_Forgotten(t) == tokenExists

\* tokenExists[_tokenId] = true
markToken(t) == [tokenExists EXCEPT ![t] = TRUE]

\* faulty variant of bindToken: the token is bound to the owner of the contract
bindToken_Owner(t, sender) == [tokenToSME EXCEPT ![t] = Owner]

\* faulty variant of bindToken: the reverse index is not written
bindToken_Forgotten(t, sender) == tokenToSME

\* tokenToSME[_tokenId] = msg.sender
bindToken(t, sender) == [tokenToSME EXCEPT ![t] = sender]

\* faulty variant of countUp: the per-principal count is incremented twice
countUp_Twice(sender) == [transactionCounts EXCEPT ![sender] = @ + 2]

\* faulty variant of countUp: the per-principal count is not incremented
countUp_Skipped(sender) == transactionCounts

\* transactionCounts[msg.sender]++
countUp(sender) == [transactionCounts EXCEPT ![sender] = @ + 1]

\* faulty variant of totalUp: the global total is not incremented
totalUp_Stuck == totalTransactions

\* totalTransactions++
totalUp == totalTransactions + 1

logTransactionWrites(sender, t, ty, a, h, p) ==
    /\ auditTrails' = [auditTrails EXCEPT
                         ![sender] = pushTx(@, newTx(sender, t, ty, a, h, p))]
    /\ tokenExists' = markToken(t)
    /\ tokenToSME' = bindToken(t, sender)
    /\ transactionCounts' = countUp(sender)
    /\ totalTransactions' = totalUp
    /\ events' = Append(events, TransactionLogged(t, sender, blockTimestamp, h, ty, a))
    /\ UNCHANGED <<authorizedSMEs, paused>>

logTransaction(sender, t, ty, a, h, p) ==
    /\ LET why == logTransactionRevert(sender, t, ty, a, h, p) IN
       IF why # OK
       THEN revert("logTransaction", why)
       ELSE /\ logTransactionWrites(sender, t, ty, a, h, p)
            /\ lastCall' = Returned("logTransaction", TRUE)
    /\ UNCHANGED blockTimestamp

(***************************************************************************)
(* pause / unpause                                                         *)
(***************************************************************************)
pauseRevert(sender) ==
    IF ~onlyOwner(sender) THEN ErrNotOwner
    ELSE IF ~whenNotPaused THEN ErrPaused
    ELSE OK

pause(sender) ==
    /\ LET why == pauseRevert(sender) IN
       IF why # OK
       THEN revert("pause", why)
       ELSE /\ paused' = TRUE
            /\ lastCall' = Returned("pause", TRUE)
            /\ UNCHANGED <<auditTrails, tokenExists, authorizedSMEs, tokenToSME,
                           transactionCounts, totalTransactions, events>>
    /\ UNCHANGED blockTimestamp

unpauseRevert(sender) ==
    IF ~onlyOwner(sender) THEN ErrNotOwner
    ELSE IF ~whenPaused THEN ErrNotPaused
    ELSE OK

unpause(sender) ==
    /\ LET why == unpauseRevert(sender) IN
       IF why # OK
       THEN revert("unpause", why)
       ELSE /\ paused' = FALSE
            /\ lastCall' = Returned("unpause", TRUE)
            /\ UNCHANGED <<auditTrails, tokenExists, authorizedSMEs, tokenToSME,
                           transactionCounts, totalTransactions, events>>
    /\ UNCHANGED blockTimestamp

(***************************************************************************)
(* batchAuthorizeSMEs: a require inside the loop reverts the whole call.   *)
(***************************************************************************)
\* faulty variant of batchAuthorizeSMEsRevert: only the first entry is validated
batchAuthorizeSMEsRevert_FirstOnly(sender, smes, statuses) ==
    IF ~onlyOwner(sender) THEN ErrNotOwner
    ELSE IF ~(Len(smes) = Len(statuses)) THEN ErrLengthMismatch
    ELSE IF ~(Len(smes) > 0) THEN ErrEmptyArrays
    ELSE IF ~(smes[1] # ZeroAddress) THEN ErrInvalidSME
    ELSE OK

batchAuthorizeSMEsRevert(sender, smes, statuses) ==
    IF ~onlyOwner(sender) THEN ErrNotOwner
    ELSE IF ~(Len(smes) = Len(statuses)) THEN ErrLengthMismatch
    ELSE IF ~(Len(smes) > 0) THEN ErrEmptyArrays
    ELSE IF \E i \in 1..Len(smes) : ~(smes[i] # ZeroAddress) THEN ErrInvalidSME
    ELSE OK

\* faulty variant of batchLoop: the pairs are applied from the last to the first
RECURSIVE batchLoop_Backwards(_, _, _, _)
batchLoop_Backwards(auth, smes, statuses, i) ==
    IF i > Len(smes) THEN auth
    ELSE batchLoop_Backwards([auth EXCEPT ![smes[Len(smes) + 1 - i]] = statuses[Len(smes) + 1 - i]],
                             smes, statuses, i + 1)

RECURSIVE batchLoop(_, _, _, _)
batchLoop(auth, smes, statuses, i) ==
    IF i > Len(smes) THEN auth
    ELSE batchLoop([auth EXCEPT ![smes[i]] = statuses[i]], smes, statuses, i + 1)

batchAuthorizeSMEs(sender, smes, statuses) ==
    /\ AuthEventCount + Len(smes) <= MaxAuthEvents
    /\ LET why == batchAuthorizeSMEsRevert(sender, smes, statuses) IN
       IF why # OK
       THEN revert("batchAuthorizeSMEs", why)
       ELSE /\ authorizedSMEs' = batchLoop(authorizedSMEs, smes, statuses, 1)
            /\ events' = events \o [i \in 1..Len(smes) |-> SMEAuthorized(smes[i], statuses[i])]
            /\ lastCall' = Returned("batchAuthorizeSMEs", TRUE)
            /\ UNCHANGED <<auditTrails, tokenExists, tokenToSME, transactionCounts,
                           totalTransactions, paused>>
    /\ UNCHANGED blockTimestamp

(***************************************************************************)
(* View functions: the value a call returns, or the reason it reverts.     *)
(***************************************************************************)
\* faulty variant of getAuditTrail: the trail is returned newest first
getAuditTrail_Reversed(sme) ==
    IF sme = ZeroAddress THEN Reverted("getAuditTrail", ErrInvalidSME)
    ELSE Returned("getAuditTrail",
                  [i \in 1..Len(auditTrails[sme]) |->
                      auditTrails[sme][Len(auditTrails[sme]) + 1 - i]])

getAuditTrail(sme) ==
    IF sme = ZeroAddress THEN Reverted("getAuditTrail", ErrInvalidSME)
    ELSE Returned("getAuditTrail", auditTrails[sme])

\* the loop of verifyToken: the first record of the trail with the token id
RECURSIVE scanTrail(_, _, _)
scanTrail(trail, t, i) ==
    IF i > Len(trail) THEN [exists |-> FALSE, transaction |-> emptyTx]
    ELSE IF trail[i].tokenId = t THEN [exists |-> TRUE, transaction |-> trail[i]]
    ELSE scanTrail(trail, t, i + 1)

\* faulty variant of verifyToken: the trail of the token's owner is scanned, whoever
\* the principal asked about is
verifyToken_AnyTrail(t, sme) ==
    LET why == IF validTokenId(t) # OK THEN validTokenId(t)
               ELSE IF ~(sme # ZeroAddress) THEN ErrInvalidSME
               ELSE OK
    IN
    IF why # OK THEN Reverted("verifyToken", why)
    ELSE Returned("verifyToken", scanTrail(auditTrails[tokenToSME[t]], t, 1))

verifyToken(t, sme) ==
    LET why == IF validTokenId(t) # OK THEN validTokenId(t)
               ELSE IF ~(sme # ZeroAddress) THEN ErrInvalidSME
               ELSE OK
    IN
    IF why # OK THEN Reverted("verifyToken", why)
    ELSE Returned("verifyToken", scanTrail(auditTrails[sme], t, 1))

getTransactionCount(sme) ==
    IF sme = ZeroAddress THEN Reverted("getTransactionCount", ErrInvalidSME)
    ELSE Returned("getTransactionCount", transactionCounts[sme])

\* faulty variant of verifyDataIntegrity: a zero expected hash is compared like any other
verifyDataIntegrity_ZeroCompared(t, sme, expected) ==
    LET why == IF validTokenId(t) # OK THEN validTokenId(t)
               ELSE IF ~(sme # ZeroAddress) THEN ErrInvalidSME
               ELSE OK
        found == verifyToken(t, sme)
    IN  IF why # OK THEN Reverted("verifyDataIntegrity", why)
        ELSE IF ~found.ok THEN Reverted("verifyDataIntegrity", found.reason)
        ELSE IF ~found.ret.exists THEN Returned("verifyDataIntegrity", FALSE)
        ELSE Returned("verifyDataIntegrity", found.ret.transaction.dataHash = expected)

\* faulty variant of verifyDataIntegrity: the stored hash is not compared
verifyDataIntegrity_IgnoresHash(t, sme, expected) ==
    LET why == IF validTokenId(t) # OK THEN validTokenId(t)
               ELSE IF ~(sme # ZeroAddress) THEN ErrInvalidSME
               ELSE IF ~(expected # ZeroHash) THEN ErrExpectedHash
               ELSE OK
        found == verifyToken(t, sme)
    IN  IF why # OK THEN Reverted("verifyDataIntegrity", why)
        ELSE IF ~found.ok THEN Reverted("verifyDataIntegrity", found.reason)
        ELSE Returned("verifyDataIntegrity", found.ret.exists)

verifyDataIntegrity(t, sme, expected) ==
    LET why == IF validTokenId(t) # OK THEN validTokenId(t)
               ELSE IF ~(sme # ZeroAddress) THEN ErrInvalidSME
               ELSE IF ~(expected # ZeroHash) THEN ErrExpectedHash
               ELSE OK
        found == verifyToken(t, sme)
    IN  IF why # OK THEN Reverted("verifyDataIntegrity", why)
        ELSE IF ~found.ok THEN Reverted("verifyDataIntegrity", found.reason)
        ELSE IF ~found.ret.exists THEN Returned("verifyDataIntegrity", FALSE)
        ELSE Returned("verifyDataIntegrity", found.ret.transaction.dataHash = expected)

getTransactionByTokenId(t) ==
    LET why == validTokenId(t) IN
    IF why # OK THEN Reverted("getTransactionByTokenId", why)
    ELSE IF ~tokenExists[t]
         THEN Returned("getTransactionByTokenId", [exists |-> FALSE, transaction |-> emptyTx])
    ELSE LET found == verifyToken(t, tokenToSME[t]) IN
         IF ~found.ok THEN Reverted("getTransactionByTokenId", found.reason)
         ELSE Returned("getTransactionByTokenId", found.ret)

\* faulty variant of isAuthorizedSME: the zero address is rejected as in the other reads
isAuthorizedSME_RejectsZero(sme) ==
    IF sme = ZeroAddress THEN Reverted("isAuthorizedSME", ErrInvalidSME)
    ELSE Returned("isAuthorizedSME", authorizedSMEs[sme])

isAuthorizedSME(sme) == Returned("isAuthorizedSME", authorizedSMEs[sme])

getTotalTransactions == Returned("getTotalTransactions", totalTransactions)

\* a view call: its outcome is observed, nothing is written
View(result) ==
    /\ lastCall' = result
    /\ UNCHANGED <<ledgerVars, blockTimestamp>>

callGetAuditTrail == \E sme \in Addresses : View(getAuditTrail(sme))

callVerifyToken == \E t \in TokenIds, sme \in Addresses : View(verifyToken(t, sme))

callGetTransactionCount == \E sme \in Addresses : View(getTransactionCount(sme))

callVerifyDataIntegrity ==
    \E t \in TokenIds, sme \in Addresses, h \in ExpectedHashes :
        View(verifyDataIntegrity(t, sme, h))

callGetTransactionByTokenId == \E t \in TokenIds : View(getTransactionByTokenId(t))

callIsAuthorizedSME == \E sme \in Addresses : View(isAuthorizedSME(sme))

callGetTotalTransactions == View(getTotalTransactions)

(***************************************************************************)
(* A new block: block.timestamp advances.                                  *)
(***************************************************************************)
mineBlock ==
    /\ blockTimestamp < MaxTime
    /\ blockTimestamp' = blockTimestamp + 1
    /\ lastCall' = Returned("mineBlock", TRUE)
    /\ UNCHANGED ledgerVars

(***************************************************************************)
(* Commit pipeline (spec.md 4.4): one state machine per submission, keyed  *)
(* by the intended tokenId; the key is held from the start of the run to   *)
(* its terminal state.                                                     *)
(***************************************************************************)
Terminal == {"Committed", "StoreFailed", "LedgerFailed", "Rejected"}

\* faulty variant of release: the key stays held after the run
release_Kept(i) == keyLock

\* reaching a terminal state releases the key
release(i) == [keyLock EXCEPT ![sub[i].tokenId] = NoSubmission]

Submit(i, who, t, d) ==
    /\ sub[i].state = "Idle"
    /\ \A j \in SubIds : j < i => sub[j].state # "Idle"
    /\ keyLock[t] = NoSubmission
    /\ sub' = [sub EXCEPT ![i] = [idleSubmission EXCEPT !.state = "Received",
                                    !.principal = who, !.tokenId = t, !.doc = d]]
    /\ keyLock' = [keyLock EXCEPT ![t] = i]
    /\ UNCHANGED <<store, orphans, ledgerVars, blockTimestamp, lastCall>>

\* Received -> HashComputed, or Rejected on malformed input
ComputeHash(i) ==
    /\ sub[i].state = "Received"
    /\ IF sub[i].doc = EmptyDoc
       THEN /\ sub' = [sub EXCEPT ![i].state = "Rejected", ![i].reply = "Rejected",
                                  ![i].reason = "MalformedInput"]
            /\ keyLock' = release(i)
       ELSE /\ sub' = [sub EXCEPT ![i].state = "HashComputed",
                                  ![i].contentHash = Hash(sub[i].doc)]
            /\ UNCHANGED keyLock
    /\ UNCHANGED <<store, orphans, ledgerVars, blockTimestamp, lastCall>>

\* HashComputed -> Stored: the upload succeeds
StorePut(i) ==
    /\ sub[i].state = "HashComputed"
    /\ store' = store \cup {sub[i].doc}
    /\ sub' = [sub EXCEPT ![i].state = "Stored",
                          ![i].contentPointer = PointerOf(sub[i].doc),
                          ![i].storeAttempts = @ + 1]
    /\ UNCHANGED <<keyLock, orphans, ledgerVars, blockTimestamp, lastCall>>

\* faulty variant of StoreUnavailable: a failed upload is flagged as an orphan
StoreUnavailable_FlagsOrphan(i) ==
    /\ sub[i].state = "HashComputed"
    /\ IF sub[i].storeAttempts + 1 >= MaxAttempts
       THEN /\ sub' = [sub EXCEPT ![i].state = "StoreFailed", ![i].reply = "StoreFailed",
                                  ![i].reason = "StoreUnavailable",
                                  ![i].storeAttempts = @ + 1]
            /\ keyLock' = release(i)
            /\ orphans' = orphans \cup {PointerOf(sub[i].doc)}
       ELSE /\ sub' = [sub EXCEPT ![i].storeAttempts = @ + 1]
            /\ UNCHANGED <<keyLock, orphans>>
    /\ UNCHANGED <<store, ledgerVars, blockTimestamp, lastCall>>

\* the upload fails transiently (StoreUnavailable or timeout): retry, or StoreFailed
StoreUnavailable(i) ==
    /\ sub[i].state = "HashComputed"
    /\ IF sub[i].storeAttempts + 1 >= MaxAttempts
       THEN /\ sub' = [sub EXCEPT ![i].state = "StoreFailed", ![i].reply = "StoreFailed",
                                  ![i].reason = "StoreUnavailable",
                                  ![i].storeAttempts = @ + 1]
            /\ keyLock' = release(i)
       ELSE /\ sub' = [sub EXCEPT ![i].storeAttempts = @ + 1]
            /\ UNCHANGED keyLock
    /\ UNCHANGED <<store, orphans, ledgerVars, blockTimestamp, lastCall>>

\* the append the pipeline sends to the ledger for submission i
appendOf(i) ==
    logTransaction(sub[i].principal, sub[i].tokenId, SubType, SubAmount,
                   sub[i].contentHash, sub[i].contentPointer)

\* a duplicate rejection of a retried append is read as already committed
committedBy(i, answer) ==
    \/ answer.ok
    \/ answer.reason = ErrTokenExists /\ sub[i].ledgerAttempts > 0

\* faulty variant of onAnswer: the document of a rejected submission is not flagged
onAnswer_DropsOrphan(i, answer) ==
    IF committedBy(i, answer)
    THEN /\ sub' = [sub EXCEPT ![i].state = "Committed", ![i].reply = "success",
                               ![i].ledgerAttempts = @ + 1]
         /\ UNCHANGED orphans
    ELSE /\ sub' = [sub EXCEPT ![i].state = "Rejected", ![i].reply = "Rejected",
                               ![i].reason = answer.reason,
                               ![i].ledgerAttempts = @ + 1]
         /\ UNCHANGED orphans

\* what the pipeline does with the ledger's answer to its append
onAnswer(i, answer) ==
    IF committedBy(i, answer)
    THEN /\ sub' = [sub EXCEPT ![i].state = "Committed", ![i].reply = "success",
                               ![i].ledgerAttempts = @ + 1]
         /\ UNCHANGED orphans
    ELSE /\ sub' = [sub EXCEPT ![i].state = "Rejected", ![i].reply = "Rejected",
                               ![i].reason = answer.reason,
                               ![i].ledgerAttempts = @ + 1]
         /\ orphans' = orphans \cup {sub[i].contentPointer}

\* faulty variant of onTransient: the append is retried without a bound
onTransient_Unbounded(i, applied) ==
    /\ sub' = [sub EXCEPT ![i].state = "LedgerPending",
                          ![i].ledgerAttempts = @ + 1,
                          ![i].ackLost = @ \/ applied]
    /\ UNCHANGED <<orphans, keyLock>>

\* what the pipeline does with a transient ledger failure or a timeout
onTransient(i, applied) ==
    IF sub[i].ledgerAttempts + 1 >= MaxAttempts
    THEN /\ sub' = [sub EXCEPT ![i].state = "LedgerFailed", ![i].reply = "LedgerFailed",
                               ![i].reason = "TransientError",
                               ![i].ledgerAttempts = @ + 1,
                               ![i].ackLost = @ \/ applied]
         /\ orphans' = orphans \cup {sub[i].contentPointer}
         /\ keyLock' = release(i)
    ELSE /\ sub' = [sub EXCEPT ![i].state = "LedgerPending",
                               ![i].ledgerAttempts = @ + 1,
                               ![i].ackLost = @ \/ applied]
         /\ UNCHANGED <<orphans, keyLock>>

\* Stored -> Committed | Rejected: the ledger answers the append
LedgerAnswered(i) ==
    /\ sub[i].state \in {"Stored", "LedgerPending"}
    /\ appendOf(i)
    /\ onAnswer(i, lastCall')
    /\ keyLock' = release(i)
    /\ UNCHANGED store

\* the ledger handles the append but its answer never reaches the pipeline
LedgerAckLost(i) ==
    /\ sub[i].state \in {"Stored", "LedgerPending"}
    /\ appendOf(i)
    /\ onTransient(i, lastCall'.ok)
    /\ UNCHANGED store

\* the append never reaches the ledger
LedgerUnreachable(i) ==
    /\ sub[i].state \in {"Stored", "LedgerPending"}
    /\ onTransient(i, FALSE)
    /\ UNCHANGED <<ledgerVars, blockTimestamp, lastCall, store>>

\* faulty variant of Cancel: the stored document of a cancelled run is forgotten
Cancel_Drops(i) ==
    /\ sub[i].state \in {"Received", "HashComputed", "Stored", "LedgerPending"}
    /\ sub' = [sub EXCEPT ![i].state = "Cancelled", ![i].reply = "Cancelled"]
    /\ keyLock' = release(i)
    /\ UNCHANGED <<orphans, store, ledgerVars, blockTimestamp, lastCall>>

\* the caller cancels the submission: before Stored nothing is left of it, after
\* Stored the document goes to the reconciliation backlog
Cancel(i) ==
    /\ sub[i].state \in {"Received", "HashComputed", "Stored", "LedgerPending"}
    /\ sub' = [sub EXCEPT ![i].state = "Cancelled", ![i].reply = "Cancelled"]
    /\ orphans' = IF sub[i].state \in {"Stored", "LedgerPending"}
                  THEN orphans \cup {sub[i].contentPointer}
                  ELSE orphans
    /\ keyLock' = release(i)
    /\ UNCHANGED <<store, ledgerVars, blockTimestamp, lastCall>>

(***************************************************************************)
(* The App component: initializeWeb3, connectWallet and the handlers of    *)
(* the wallet's events.  An async function is one action per stretch       *)
(* between two awaits; a handler is one action.                            *)
(***************************************************************************)
\* validateNetwork: the error is set for a network that is not supported
validateNetwork(networkId) == networkId \notin supportedNetworks

\* the outcomes of the fetch of checkSMERegistration: 200, 404, anything else
CheckOutcomes == {"ok", "notFound", "failed"}

\* checkSMERegistration: what smeData is after the fetch for walletAddress answered
checkSMERegistration(walletAddress, outcome) ==
    IF outcome = "ok" THEN StatsOf(walletAddress)
    ELSE IF outcome = "notFound" THEN NoData
    ELSE smeData

\* the `account` the registered handlers read: the listeners are added once, by the
\* effect of the first render, and keep the closure of that render
closureAccount == NoAccount

\* the page loads: the effect registers the listeners and calls initializeWeb3,
\* which runs to its first await
Mount ==
    /\ initializing.pc = "unmounted"
    /\ \E present \in {"present", "absent"} : ethereum' = present
    /\ isLoading' = TRUE
    /\ initializing' = [initializing EXCEPT !.pc = "detect"]
    /\ UNCHANGED <<web3, account, chainId, isConnected, smeData, networkError,
                   walletAccounts, connecting, pendingChecks>>

\* detectEthereumProvider answered
InitDetected ==
    /\ initializing.pc = "detect"
    /\ IF ethereum = "absent"
       THEN /\ isLoading' = FALSE
            /\ initializing' = [initializing EXCEPT !.pc = "done"]
            /\ UNCHANGED web3
       ELSE /\ web3' = TRUE
            /\ initializing' = [initializing EXCEPT !.pc = "getId"]
            /\ UNCHANGED isLoading
    /\ UNCHANGED <<account, chainId, isConnected, smeData, networkError,
                   ethereum, walletAccounts, connecting, pendingChecks>>

\* eth.net.getId answered, or threw
InitGotId ==
    /\ initializing.pc = "getId"
    /\ \/ \E id \in NetworkIds :
             /\ chainId' = id
             /\ initializing' = [initializing EXCEPT !.pc = "getAccounts", !.networkId = id]
             /\ UNCHANGED isLoading
       \/ /\ isLoading' = FALSE
          /\ initializing' = [initializing EXCEPT !.pc = "done"]
          /\ UNCHANGED chainId
    /\ UNCHANGED <<web3, account, isConnected, smeData, networkError,
                   ethereum, walletAccounts, connecting, pendingChecks>>

\* eth.getAccounts answered with the accounts the wallet exposes, or threw
InitGotAccounts ==
    /\ initializing.pc = "getAccounts"
    /\ \/ /\ Len(walletAccounts) > 0
          /\ account' = walletAccounts[1]
          /\ isConnected' = TRUE
          /\ initializing' = [initializing EXCEPT !.pc = "check", !.account = walletAccounts[1]]
          /\ UNCHANGED <<networkError, isLoading>>
       \/ /\ ~(Len(walletAccounts) > 0)
          /\ networkError' = validateNetwork(initializing.networkId)
          /\ isLoading' = FALSE
          /\ initializing' = [initializing EXCEPT !.pc = "done"]
          /\ UNCHANGED <<account, isConnected>>
       \/ /\ isLoading' = FALSE
          /\ initializing' = [initializing EXCEPT !.pc = "done"]
          /\ UNCHANGED <<account, isConnected, networkError>>
    /\ UNCHANGED <<web3, chainId, smeData, ethereum, walletAccounts, connecting, pendingChecks>>

\* the awaited checkSMERegistration of initializeWeb3 returned
InitChecked ==
    /\ initializing.pc = "check"
    /\ \E outcome \in CheckOutcomes :
          smeData' = checkSMERegistration(initializing.account, outcome)
    /\ networkError' = validateNetwork(initializing.networkId)
    /\ isLoading' = FALSE
    /\ initializing' = [initializing EXCEPT !.pc = "done"]
    /\ UNCHANGED <<web3, account, chainId, isConnected, ethereum, walletAccounts,
                   connecting, pendingChecks>>

\* a click on one of the connect buttons, shown while not connected and disabled
\* while loading
connectWallet ==
    /\ initializing.pc # "unmounted"
    /\ connecting.pc = "idle"
    /\ ~isConnected
    /\ ~isLoading
    /\ IF ~web3
       THEN UNCHANGED <<isLoading, connecting>>
       ELSE /\ isLoading' = TRUE
            /\ connecting' = [connecting EXCEPT !.pc = "request"]
    /\ UNCHANGED <<web3, account, chainId, isConnected, smeData, networkError,
                   ethereum, walletAccounts, initializing, pendingChecks>>

\* eth_requestAccounts resolved, the wallet exposing an account, or was rejected
ConnectRequested ==
    /\ connecting.pc = "request"
    /\ \/ /\ Len(walletAccounts) > 0
          /\ connecting' = [connecting EXCEPT !.pc = "getAccounts"]
          /\ UNCHANGED isLoading
       \/ /\ isLoading' = FALSE
          /\ connecting' = [connecting EXCEPT !.pc = "idle"]
    /\ UNCHANGED <<web3, account, chainId, isConnected, smeData, networkError,
                   ethereum, walletAccounts, initializing, pendingChecks>>

\* eth.getAccounts of connectWallet answered
ConnectGotAccounts ==
    /\ connecting.pc = "getAccounts"
    /\ \/ /\ Len(walletAccounts) > 0
          /\ account' = walletAccounts[1]
          /\ isConnected' = TRUE
          /\ connecting' = [pc |-> "check", account |-> walletAccounts[1]]
          /\ UNCHANGED isLoading
       \/ /\ isLoading' = FALSE
          /\ connecting' = [connecting EXCEPT !.pc = "idle"]
          /\ UNCHANGED <<account, isConnected>>
    /\ UNCHANGED <<web3, chainId, smeData, networkError, ethereum, walletAccounts,
                   initializing, pendingChecks>>

\* the awaited checkSMERegistration of connectWallet returned
ConnectChecked ==
    /\ connecting.pc = "check"
    /\ \E outcome \in CheckOutcomes :
          smeData' = checkSMERegistration(connecting.account, outcome)
    /\ isLoading' = FALSE
    /\ connecting' = [connecting EXCEPT !.pc = "idle"]
    /\ UNCHANGED <<web3, account, chainId, isConnected, networkError, ethereum,
                   walletAccounts, initializing, pendingChecks>>

\* the listeners are registered: window.ethereum is there and the effect has run
Listening == ethereum = "present" /\ initializing.pc # "unmounted"

handleAccountsChanged(accounts) ==
    IF Len(accounts) = 0
    THEN /\ account' = NoAccount
         /\ isConnected' = FALSE
         /\ smeData' = NoData
         /\ UNCHANGED pendingChecks
    ELSE IF accounts[1] # closureAccount
    THEN /\ account' = accounts[1]
         /\ pendingChecks' = pendingChecks \cup {accounts[1]}
         /\ UNCHANGED <<isConnected, smeData>>
    ELSE UNCHANGED <<account, isConnected, smeData, pendingChecks>>

\* the wallet exposes other accounts than before and emits accountsChanged
AccountsChanged ==
    /\ Listening
    /\ \E accounts \in AccountLists \ {walletAccounts} :
          /\ walletAccounts' = accounts
          /\ handleAccountsChanged(accounts)
    /\ UNCHANGED <<web3, chainId, isLoading, networkError, ethereum, initializing, connecting>>

\* the fetch of a checkSMERegistration that handleAccountsChanged left running answered
CheckAnswered ==
    /\ \E a \in pendingChecks, outcome \in CheckOutcomes :
          /\ smeData' = checkSMERegistration(a, outcome)
          /\ pendingChecks' = pendingChecks \ {a}
    /\ UNCHANGED <<web3, account, chainId, isConnected, isLoading, networkError,
                   ethereum, walletAccounts, initializing, connecting>>

\* the wallet emits chainChanged
handleChainChanged ==
    /\ Listening
    /\ \E networkId \in NetworkIds :
          /\ chainId' = networkId
          /\ networkError' = validateNetwork(networkId)
    /\ UNCHANGED <<web3, account, isConnected, isLoading, smeData, ethereum,
                   walletAccounts, initializing, connecting, pendingChecks>>

\* the wallet emits disconnect
handleDisconnect ==
    /\ Listening
    /\ account' = NoAccount
    /\ isConnected' = FALSE
    /\ smeData' = NoData
    /\ UNCHANGED <<web3, chainId, isLoading, networkError, ethereum, walletAccounts,
                   initializing, connecting, pendingChecks>>

(***************************************************************************)
(* The start script: its commands in order, under `set -e`.                *)
(***************************************************************************)
\* a docker compose command other than `up`, a `docker compose up -d`, a call of
\* wait_for_service, the final message
Run(what) == [kind |-> "run", services |-> {}, what |-> what]
Up(services) == [kind |-> "up", services |-> services, what |-> "up"]
Wait(service) == [kind |-> "wait", services |-> {service}, what |-> "wait"]
Message == [kind |-> "message", services |-> {}, what |-> "success"]

\* the commands of the script that can fail or that print the final message
Program ==
    <<Run("down"), Run("build"),
      Up(Infrastructure), Wait("postgres"), Wait("redis"), Wait("ipfs"),
      Up({"hardhat"}), Run("logs hardhat"),
      Up({"backend"}), Wait("backend"), Run("logs backend"),
      Up({"frontend"}), Wait("frontend"),
      Up({"nginx"}), Wait("nginx"),
      Run("ps"), Message>>

\* the command the script is at
Command == Program[scriptPc]
AtCommand == exitStatus = "running" /\ scriptPc <= Len(Program)

\* faulty variant of errexit: a failed command is ignored
errexit_Ignored(status) == "running"

\* set -e: a command that returns non-zero ends the script
errexit(status) == IF status = 0 THEN "running" ELSE "failed"

\* the command returned `status`: the script goes on to the next one, or ends
commandReturned(status) ==
    /\ exitStatus' = errexit(status)
    /\ scriptPc' = IF errexit(status) = "running" THEN scriptPc + 1 ELSE scriptPc

\* a docker compose command ran and returned zero or not
RunCommand ==
    /\ AtCommand
    /\ Command.kind \in {"run", "up"}
    /\ started' = started \cup Command.services
    /\ \E status \in {0, 1} : commandReturned(status)
    /\ UNCHANGED <<attempt, observedUp, announced>>

\* wait_for_service, one turn of its loop: the service is seen Up and the function
\* returns 0, or it is not and the attempt is counted
wait_for_service ==
    /\ AtCommand
    /\ Command.kind = "wait"
    /\ attempt <= max_attempts
    /\ \E up \in BOOLEAN :
          IF up
          THEN /\ observedUp' = observedUp \cup Command.services
               /\ attempt' = 1
               /\ commandReturned(0)
          ELSE /\ attempt' = attempt + 1
               /\ UNCHANGED <<observedUp, scriptPc, exitStatus>>
    /\ UNCHANGED <<started, announced>>

\* wait_for_service, its loop left: the function returns 1
wait_for_service_failed ==
    /\ AtCommand
    /\ Command.kind = "wait"
    /\ ~(attempt <= max_attempts)
    /\ commandReturned(1)
    /\ attempt' = IF errexit(1) = "running" THEN 1 ELSE attempt
    /\ UNCHANGED <<observedUp, started, announced>>

\* the final success message is printed
AnnounceSuccess ==
    /\ AtCommand
    /\ Command.kind = "message"
    /\ announced' = TRUE
    /\ commandReturned(0)
    /\ UNCHANGED <<attempt, observedUp, started>>

\* the end of the script is reached
ScriptEnds ==
    /\ exitStatus = "running"
    /\ scriptPc > Len(Program)
    /\ exitStatus' = "ok"
    /\ UNCHANGED <<scriptPc, attempt, observedUp, started, announced>>

(***************************************************************************)
(* Specifications.                                                         *)
(***************************************************************************)
\* the ledger alone
Next ==
    \/ \E s \in Senders, a \in Addresses, st \in BOOLEAN :
          authorizeSME(s, a, st) /\ UNCHANGED <<pipeVars, hostVars>>
    \/ \E s \in Senders, t \in TokenIds, f \in LogFields :
          logTransaction(s, t, f[1], f[2], f[3], f[4]) /\ UNCHANGED <<pipeVars, hostVars>>
    \/ \E s \in Senders : pause(s) /\ UNCHANGED <<pipeVars, hostVars>>
    \/ \E s \in Senders : unpause(s) /\ UNCHANGED <<pipeVars, hostVars>>
    \/ \E s \in Senders, smes \in SmeLists, sts \in StatusLists :
          batchAuthorizeSMEs(s, smes, sts) /\ UNCHANGED <<pipeVars, hostVars>>
    \/ mineBlock /\ UNCHANGED <<pipeVars, hostVars>>

Spec == Init /\ [][Next]_vars

\* the ledger with its view functions, the mutating calls with well-formed arguments
NextViews ==
    \/ \E s \in Senders, a \in Senders, st \in BOOLEAN :
          authorizeSME(s, a, st) /\ UNCHANGED <<pipeVars, hostVars>>
    \/ \E s \in Senders, t \in SubTokenIds, h \in DataHashes \ {ZeroHash} :
          logTransaction(s, t, "PAYMENT", 100, h, "QmA") /\ UNCHANGED <<pipeVars, hostVars>>
    \/ \E s \in Senders : pause(s) /\ UNCHANGED <<pipeVars, hostVars>>
    \/ \E s \in Senders : unpause(s) /\ UNCHANGED <<pipeVars, hostVars>>
    \/ \E s \in Senders, smes \in SmeLists, sts \in StatusLists :
          batchAuthorizeSMEs(s, smes, sts) /\ UNCHANGED <<pipeVars, hostVars>>
    \/ callGetAuditTrail /\ UNCHANGED <<pipeVars, hostVars>>
    \/ callVerifyToken /\ UNCHANGED <<pipeVars, hostVars>>
    \/ callGetTransactionCount /\ UNCHANGED <<pipeVars, hostVars>>
    \/ callVerifyDataIntegrity /\ UNCHANGED <<pipeVars, hostVars>>
    \/ callGetTransactionByTokenId /\ UNCHANGED <<pipeVars, hostVars>>
    \/ callIsAuthorizedSME /\ UNCHANGED <<pipeVars, hostVars>>
    \/ callGetTotalTransactions /\ UNCHANGED <<pipeVars, hostVars>>

SpecViews == Init /\ [][NextViews]_vars

\* the commit pipeline over the content store and the ledger; the ledger also takes
\* direct calls of the administrator and of the principals
NextPipeline ==
    \/ \E st \in BOOLEAN : authorizeSME(Owner, 2, st) /\ UNCHANGED <<pipeVars, hostVars>>
    \/ \E s \in Senders, t \in SubTokenIds :
          logTransaction(s, t, "PAYMENT", 100, Hash(2), PointerOf(2)) /\ UNCHANGED <<pipeVars, hostVars>>
    \/ pause(Owner) /\ UNCHANGED <<pipeVars, hostVars>>
    \/ unpause(Owner) /\ UNCHANGED <<pipeVars, hostVars>>
    \/ \E i \in SoloIds, who \in Senders, t \in SubTokenIds, d \in Docs : Submit(i, who, t, d) /\ UNCHANGED hostVars
    \/ \E i \in SoloIds : ComputeHash(i) /\ UNCHANGED hostVars
    \/ \E i \in SoloIds : StorePut(i) /\ UNCHANGED hostVars
    \/ \E i \in SoloIds : StoreUnavailable(i) /\ UNCHANGED hostVars
    \/ \E i \in SoloIds : LedgerAnswered(i) /\ UNCHANGED hostVars
    \/ \E i \in SoloIds : LedgerAckLost(i) /\ UNCHANGED hostVars
    \/ \E i \in SoloIds : LedgerUnreachable(i) /\ UNCHANGED hostVars

SpecPipeline == Init /\ [][NextPipeline]_vars

\* the store and the ledger respond to every call, with an answer or a failure
SpecPipelineFair ==
    /\ SpecPipeline
    /\ \A i \in SoloIds :
          /\ WF_vars(ComputeHash(i) /\ UNCHANGED hostVars)
          /\ WF_vars((StorePut(i) \/ StoreUnavailable(i)) /\ UNCHANGED hostVars)
          /\ WF_vars((LedgerAnswered(i) \/ LedgerAckLost(i) \/ LedgerUnreachable(i))
                    /\ UNCHANGED hostVars)

\* concurrent runs of the commit pipeline, with cancellation; the ledger takes the
\* appends of the pipeline and the authorizations of the administrator
NextRuns ==
    \/ \E st \in BOOLEAN : authorizeSME(Owner, 2, st) /\ UNCHANGED <<pipeVars, hostVars>>
    \/ \E i \in SubIds, who \in Senders, t \in SubTokenIds, d \in Docs : Submit(i, who, t, d) /\ UNCHANGED hostVars
    \/ \E i \in SubIds : ComputeHash(i) /\ UNCHANGED hostVars
    \/ \E i \in SubIds : StorePut(i) /\ UNCHANGED hostVars
    \/ \E i \in SubIds : StoreUnavailable(i) /\ UNCHANGED hostVars
    \/ \E i \in SubIds : LedgerAnswered(i) /\ UNCHANGED hostVars
    \/ \E i \in SubIds : LedgerAckLost(i) /\ UNCHANGED hostVars
    \/ \E i \in SubIds : LedgerUnreachable(i) /\ UNCHANGED hostVars
    \/ \E i \in SubIds : Cancel(i) /\ UNCHANGED hostVars

SpecRuns == Init /\ [][NextRuns]_vars

\* the App component in the browser, the wallet and the backend around it
NextApp ==
    \/ Mount /\ UNCHANGED <<ledgerVars, blockTimestamp, lastCall, pipeVars, startVars>>
    \/ InitDetected /\ UNCHANGED <<ledgerVars, blockTimestamp, lastCall, pipeVars, startVars>>
    \/ InitGotId /\ UNCHANGED <<ledgerVars, blockTimestamp, lastCall, pipeVars, startVars>>
    \/ InitGotAccounts /\ UNCHANGED <<ledgerVars, blockTimestamp, lastCall, pipeVars, startVars>>
    \/ InitChecked /\ UNCHANGED <<ledgerVars, blockTimestamp, lastCall, pipeVars, startVars>>
    \/ connectWallet /\ UNCHANGED <<ledgerVars, blockTimestamp, lastCall, pipeVars, startVars>>
    \/ ConnectRequested /\ UNCHANGED <<ledgerVars, blockTimestamp, lastCall, pipeVars, startVars>>
    \/ ConnectGotAccounts /\ UNCHANGED <<ledgerVars, blockTimestamp, lastCall, pipeVars, startVars>>
    \/ ConnectChecked /\ UNCHANGED <<ledgerVars, blockTimestamp, lastCall, pipeVars, startVars>>
    \/ AccountsChanged /\ UNCHANGED <<ledgerVars, blockTimestamp, lastCall, pipeVars, startVars>>
    \/ CheckAnswered /\ UNCHANGED <<ledgerVars, blockTimestamp, lastCall, pipeVars, startVars>>
    \/ handleChainChanged /\ UNCHANGED <<ledgerVars, blockTimestamp, lastCall, pipeVars, startVars>>
    \/ handleDisconnect /\ UNCHANGED <<ledgerVars, blockTimestamp, lastCall, pipeVars, startVars>>

SpecApp == Init /\ [][NextApp]_vars

\* the start script; every command it runs returns
NextStart ==
    \/ RunCommand /\ UNCHANGED <<ledgerVars, blockTimestamp, lastCall, pipeVars, appVars>>
    \/ wait_for_service /\ UNCHANGED <<ledgerVars, blockTimestamp, lastCall, pipeVars, appVars>>
    \/ wait_for_service_failed /\ UNCHANGED <<ledgerVars, blockTimestamp, lastCall, pipeVars, appVars>>
    \/ AnnounceSuccess /\ UNCHANGED <<ledgerVars, blockTimestamp, lastCall, pipeVars, appVars>>
    \/ ScriptEnds /\ UNCHANGED <<ledgerVars, blockTimestamp, lastCall, pipeVars, appVars>>

SpecStart == Init /\ [][NextStart]_vars /\ WF_vars(NextStart)

(***************************************************************************)
(* Properties of the ledger.                                               *)
(***************************************************************************)
\* the places of the persisted records: <<principal, index in its trail>>
Positions == UNION {{<<a, i>> : i \in 1..Len(auditTrails[a])} : a \in Addresses}

RecordAt(pos) == auditTrails[pos[1]][pos[2]]

TokenUsed(t) == \E pos \in Positions : RecordAt(pos).tokenId = t

RECURSIVE SumCounts(_)
SumCounts(S) ==
    IF S = {} THEN 0
    ELSE LET a == CHOOSE x \in S : TRUE IN transactionCounts[a] + SumCounts(S \ {a})

IsPrefix(u, v) == Len(u) <= Len(v) /\ SubSeq(v, 1, Len(u)) = u

\* C1: no two persisted records of the whole ledger share a tokenId, and an append
\* whose tokenId some record already carries is rejected, whoever the caller is and
\* whether or not the record's principal is still authorized.
C1_TokenIdUnique ==
    /\ \A x \in Positions, y \in Positions :
          RecordAt(x).tokenId = RecordAt(y).tokenId => x = y
    /\ \A t \in TokenIds :
          TokenUsed(t) =>
             \A s \in Senders, ty \in TransactionTypes, a \in Amounts,
                h \in DataHashes, p \in IpfsHashes :
                logTransactionRevert(s, t, ty, a, h, p) # OK

\* a duplicate append was rejected while the token's principal is deauthorized
C1_Witness ==
    /\ lastCall.op = "logTransaction"
    /\ lastCall.reason = ErrTokenExists
    /\ \E a \in Senders : ~authorizedSMEs[a] /\ Len(auditTrails[a]) > 0

\* C2: transactionCounts[p] is the length of p's trail and the number of records
\* whose principal is p, and totalTransactions is the sum of the counts.
C2_CountersConsistent ==
    /\ \A a \in Addresses :
          /\ transactionCounts[a] = Len(auditTrails[a])
          /\ transactionCounts[a] =
                Cardinality({pos \in Positions : RecordAt(pos).smeAddress = a})
    /\ totalTransactions = SumCounts(Addresses)

\* two principals each hold a record
C2_Witness ==
    /\ totalTransactions = 2
    /\ \A a \in Senders : transactionCounts[a] = 1

\* C3: every step leaves each trail a prefix of itself, so no record is removed,
\* reordered or changed, and a record read by getAuditTrail or verifyToken reads
\* the same at every later point.
C3_AppendOnly ==
    [][/\ \A a \in Addresses : IsPrefix(auditTrails[a], auditTrails'[a])
       /\ \A a \in Senders : IsPrefix(getAuditTrail(a).ret, (getAuditTrail(a).ret)')
       /\ \A pos \in Positions :
             LET read == verifyToken(RecordAt(pos).tokenId, pos[1]) IN
             /\ read.ok /\ read.ret.exists /\ read.ret.transaction = RecordAt(pos)
             /\ (verifyToken(RecordAt(pos).tokenId, pos[1]))' = read]_vars

\* a record was appended behind an older one
C3_Witness ==
    /\ lastCall.op = "logTransaction"
    /\ lastCall.ok
    /\ \E a \in Senders : Len(auditTrails[a]) = 2

\* C4: a rejected append changes nothing of the ledger: trails, token indexes,
\* counts, total, authorization flags, pause flag and event log.
C4_AtomicRejection ==
    [][(lastCall'.op = "logTransaction" /\ ~lastCall'.ok) => UNCHANGED ledgerVars]_vars

\* an append was rejected by a ledger that holds records
C4_Witness ==
    /\ lastCall.op = "logTransaction"
    /\ ~lastCall.ok
    /\ totalTransactions > 0

\* the first <<condition, reason>> of a list whose condition fails, OK if none does
RECURSIVE FirstViolated(_)
FirstViolated(checks) ==
    IF checks = <<>> THEN OK
    ELSE IF ~Head(checks)[1] THEN Head(checks)[2]
    ELSE FirstViolated(Tail(checks))

\* the kind of precondition a failure reason belongs to
Category(why) ==
    IF why \in {ErrTokenEmpty, ErrTokenTooLong, ErrTokenExists} THEN "tokenId" ELSE why

Reads ==
    <<[a \in Senders |-> getAuditTrail(a)],
      [t \in SubTokenIds, a \in Senders |-> verifyToken(t, a)],
      [t \in SubTokenIds, a \in Senders, h \in ExpectedHashes \ {ZeroHash} |->
          verifyDataIntegrity(t, a, h)],
      [t \in SubTokenIds |-> getTransactionByTokenId(t)],
      [a \in Senders |-> getTransactionCount(a)],
      getTotalTransactions>>

\* a read with a malformed tokenId, the zero address or the zero hash reverts, and
\* with the same reason in every state
MalformedReadsRevert ==
    /\ ~getAuditTrail(ZeroAddress).ok /\ ~getTransactionCount(ZeroAddress).ok
    /\ \A t \in TokenIds, a \in Addresses, h \in ExpectedHashes :
          LET whyT == validTokenId(t)
              whyA == IF whyT # OK THEN whyT
                      ELSE IF a = ZeroAddress THEN ErrInvalidSME ELSE OK
              whyH == IF whyA # OK THEN whyA
                      ELSE IF h = ZeroHash THEN ErrExpectedHash ELSE OK
          IN /\ whyT # OK => getTransactionByTokenId(t) = Reverted("getTransactionByTokenId", whyT)
             /\ whyA # OK => verifyToken(t, a) = Reverted("verifyToken", whyA)
             /\ whyH # OK => verifyDataIntegrity(t, a, h) = Reverted("verifyDataIntegrity", whyH)

\* the preconditions of an append other than the pause flag
WouldAccept(s, t, ty, a, h, p) ==
    /\ authorizedSMEs[s]
    /\ Len(t) > 0 /\ Len(t) <= MaxTokenIdLen /\ ~TokenUsed(t)
    /\ a > 0 /\ h # ZeroHash /\ ty # "" /\ p # ""

AcceptedNow ==
    {x \in Senders \X TokenIds \X TransactionTypes \X Amounts \X DataHashes \X IpfsHashes :
        logTransactionRevert(x[1], x[2], x[3], x[4], x[5], x[6]) = OK}

AcceptedButForPause ==
    {x \in Senders \X TokenIds \X TransactionTypes \X Amounts \X DataHashes \X IpfsHashes :
        WouldAccept(x[1], x[2], x[3], x[4], x[5], x[6])}

\* what C6 says beside the reason of the rejection: a paused append changes no record
\* or count, the reads are what they were before the pause (those with malformed
\* arguments revert as they do in every state), and unpausing restores the appends
\* that the pause alone held back
PauseFrame ==
    /\ [][(paused /\ lastCall'.op = "logTransaction") =>
             /\ ~lastCall'.ok
             /\ UNCHANGED <<auditTrails, tokenExists, tokenToSME, transactionCounts,
                            totalTransactions>>]_vars
    /\ [][(paused \/ paused') => Reads' = Reads]_vars
    /\ []MalformedReadsRevert
    /\ [][(paused # paused') =>
             /\ AcceptedButForPause' = AcceptedButForPause
             /\ ~paused => AcceptedNow = AcceptedButForPause
             /\ ~paused' => AcceptedNow' = AcceptedButForPause]_vars

C7_AuthorizationGatesCreation ==
    /\ [](\A s \in Senders :
             ~authorizedSMEs[s] =>
                \A t \in TokenIds, ty \in TransactionTypes, a \in Amounts,
                   h \in DataHashes, p \in IpfsHashes :
                   logTransactionRevert(s, t, ty, a, h, p) = ErrNotAuthorized)
    /\ [](\A pos \in Positions :
             LET rec == RecordAt(pos)
                 found == [exists |-> TRUE, transaction |-> rec]
             IN /\ getAuditTrail(pos[1]).ret[pos[2]] = rec
                /\ verifyToken(rec.tokenId, pos[1]) = Returned("verifyToken", found)
                /\ getTransactionByTokenId(rec.tokenId) =
                      Returned("getTransactionByTokenId", found))
    /\ [][\A s \in Senders :
             (authorizedSMEs[s] /\ ~authorizedSMEs'[s]) =>
                /\ (getAuditTrail(s))' = getAuditTrail(s)
                /\ (getTransactionCount(s))' = getTransactionCount(s)
                /\ \A i \in 1..Len(auditTrails[s]) :
                      LET t == auditTrails[s][i].tokenId IN
                      /\ (verifyToken(t, s))' = verifyToken(t, s)
                      /\ (getTransactionByTokenId(t))' = getTransactionByTokenId(t)]_vars

\* a principal that holds a record was deauthorized and its next append was rejected
C7_Witness ==
    /\ lastCall.op = "logTransaction"
    /\ lastCall.reason = ErrNotAuthorized
    /\ \E s \in Senders : ~authorizedSMEs[s] /\ Len(auditTrails[s]) > 0

\* the trail of principal p holds a record with tokenId t and contentHash h
HoldsRecord(p, t, h) ==
    \E i \in 1..Len(auditTrails[p]) :
        auditTrails[p][i].tokenId = t /\ auditTrails[p][i].dataHash = h

\* C8 (as claimed): for every tokenId, principal and expectedHash the call returns
\* true if the principal's trail holds a record with that tokenId and that hash, and
\* returns false otherwise.
C8_Original ==
    \A t \in TokenIds, p \in Addresses, h \in ExpectedHashes :
        LET answer == verifyDataIntegrity(t, p, h) IN
        /\ answer.ok
        /\ answer.ret = HoldsRecord(p, t, h)

\* C8 (amended): the call returns true if and only if the principal's trail holds a
\* record with that tokenId whose contentHash equals expectedHash; for a tokenId of
\* 1 to 64 bytes, a principal other than the zero address and an expectedHash other
\* than zero, any other hash and an absent record yield false; an empty or too long
\* tokenId, the zero address and the zero hash make the call fail with the reason of
\* the first of them, and no value is returned.
C8_IntegrityCheck ==
    /\ \A t \in TokenIds, p \in Addresses, h \in ExpectedHashes :
          LET answer == verifyDataIntegrity(t, p, h)
              why == FirstViolated(<< <<Len(t) > 0, ErrTokenEmpty>>,
                                      <<Len(t) <= MaxTokenIdLen, ErrTokenTooLong>>,
                                      <<p # ZeroAddress, ErrInvalidSME>>,
                                      <<h # ZeroHash, ErrExpectedHash>> >>)
          IN /\ (answer.ok /\ answer.ret = TRUE) <=> HoldsRecord(p, t, h)
             /\ why = OK => answer = Returned("verifyDataIntegrity", HoldsRecord(p, t, h))
             /\ why # OK => answer = Reverted("verifyDataIntegrity", why)
    /\ lastCall.op = "verifyDataIntegrity" =>
          \E t \in TokenIds, p \in Addresses, h \in ExpectedHashes :
             lastCall = verifyDataIntegrity(t, p, h)

\* an integrity check of a persisted record returned true
C8_Witness ==
    /\ lastCall.op = "verifyDataIntegrity"
    /\ lastCall.ok
    /\ lastCall.ret = TRUE
    /\ totalTransactions = 2

(***************************************************************************)
(* Properties of the commit pipeline.                                      *)
(***************************************************************************)
\* the persisted records with tokenId t
RecordsOf(t) == {pos \in Positions : RecordAt(pos).tokenId = t}

C10_TwoSubsystemConsistency ==
    \A i \in SubIds :
        (sub[i].state = "Committed" \/ sub[i].reply = "success") =>
           /\ sub[i].doc \in store
           /\ sub[i].contentPointer = PointerOf(sub[i].doc)
           /\ \E pos \in Positions :
                 /\ RecordAt(pos).tokenId = sub[i].tokenId
                 /\ RecordAt(pos).smeAddress = sub[i].principal
                 /\ RecordAt(pos).dataHash = Hash(sub[i].doc)
                 /\ RecordAt(pos).ipfsHash = sub[i].contentPointer

\* a submission whose appends never reached the ledger is reported Committed on the
\* duplicate rejection of its retry, the tokenId being held by another's record
C10_Witness ==
    \E i \in SubIds :
        /\ sub[i].reply = "success"
        /\ ~sub[i].ackLost
        /\ lastCall.reason = ErrTokenExists
        /\ \A pos \in RecordsOf(sub[i].tokenId) : RecordAt(pos).smeAddress # sub[i].principal

(***************************************************************************)
(* Properties of the administrative operations.                            *)
(***************************************************************************)
\* everything of the ledger but the authorization flags and the event log
recordVars == <<auditTrails, tokenExists, tokenToSME, transactionCounts, totalTransactions>>

\* C11: authorize succeeds only for the administrator with a non-zero principal; on
\* success exactly that principal's flag becomes status and one authorization-changed
\* event is emitted; a call by anyone else or with the zero principal is rejected and
\* leaves every authorization flag unchanged.
C11_Authorize ==
    /\ [](\A s \in Senders, a \in Addresses :
             (authorizeSMERevert(s, a) = OK) <=> (s = Owner /\ a # ZeroAddress))
    /\ [][lastCall'.op = "authorizeSME" =>
             \A s \in Senders, a \in Addresses, st \in BOOLEAN :
                authorizeSME(s, a, st) =>
                   IF s = Owner /\ a # ZeroAddress
                   THEN /\ lastCall'.ok
                        /\ authorizedSMEs'[a] = st
                        /\ \A b \in Addresses \ {a} : authorizedSMEs'[b] = authorizedSMEs[b]
                        /\ Len(events') = Len(events) + 1
                        /\ events'[Len(events')] = SMEAuthorized(a, st)
                        /\ SubSeq(events', 1, Len(events)) = events
                        /\ UNCHANGED <<recordVars, paused>>
                   ELSE /\ ~lastCall'.ok
                        /\ UNCHANGED <<authorizedSMEs, events, recordVars, paused>>]_vars

\* an authorized principal that is not the administrator was refused
C11_Witness ==
    /\ lastCall.op = "authorizeSME"
    /\ lastCall.reason = ErrNotOwner
    /\ \E a \in Senders \ {Owner} : authorizedSMEs[a]

\* the last place of principal a in a list
LastIndex(smes, a) ==
    CHOOSE i \in 1..Len(smes) : smes[i] = a /\ \A j \in (i + 1)..Len(smes) : smes[j] # a

\* the conditions under which batchAuthorize is to fail
BatchBad(s, smes, sts) ==
    \/ s # Owner
    \/ Len(smes) # Len(sts)
    \/ Len(smes) = 0
    \/ \E i \in 1..Len(smes) : smes[i] = ZeroAddress

\* what C12 says of a batch that fails: it is refused under exactly the four
\* conditions, and nothing of the ledger changes, no flag and no event
BatchAllOrNothing ==
    /\ [](\A s \in Senders, smes \in SmeLists, sts \in StatusLists :
             (batchAuthorizeSMEsRevert(s, smes, sts) # OK) <=> BatchBad(s, smes, sts))
    /\ [][(lastCall'.op = "batchAuthorizeSMEs" /\ ~lastCall'.ok) =>
             UNCHANGED <<authorizedSMEs, events, recordVars, paused>>]_vars

\* the steps that are accepted batches, with what a formula says of their flags
BatchAccepted(Flags(_, _)) ==
    (lastCall'.op = "batchAuthorizeSMEs" /\ lastCall'.ok) =>
          \A smes \in SmeLists, sts \in StatusLists :
             (~BatchBad(Owner, smes, sts) /\ batchAuthorizeSMEs(Owner, smes, sts)) =>
                /\ Flags(smes, sts)
                /\ \A a \in Addresses :
                      (\A i \in 1..Len(smes) : smes[i] # a) =>
                         authorizedSMEs'[a] = authorizedSMEs[a]
                /\ events' = events \o [i \in 1..Len(smes) |-> SMEAuthorized(smes[i], sts[i])]
                /\ UNCHANGED <<recordVars, paused>>

\* every listed principal ends with the status paired with it
FlagsAsPaired(smes, sts) ==
    \A i \in 1..Len(smes) : authorizedSMEs'[smes[i]] = sts[i]

\* every listed principal ends with the status paired with its last place in the list
FlagsAsLastPaired(smes, sts) ==
    \A i \in 1..Len(smes) : authorizedSMEs'[smes[i]] = sts[LastIndex(smes, smes[i])]

\* C12 (as claimed): batchAuthorize is all-or-nothing, and an accepted batch leaves
\* every listed principal's flag at its paired status.
C12_Original == BatchAllOrNothing /\ [][BatchAccepted(FlagsAsPaired)]_vars

\* C12 (amended): batchAuthorize is all-or-nothing: with lists of different lengths,
\* empty lists, the zero identity at any position or a caller other than the
\* administrator, no flag changes and no event is emitted; otherwise the pairs are
\* applied in list order, one event each, so every listed principal's flag ends at
\* the status paired with its last occurrence in the list.
C12_BatchAuthorize == BatchAllOrNothing /\ [][BatchAccepted(FlagsAsLastPaired)]_vars

\* a batch that lists the zero identity was refused, a principal being unauthorized
C12_Witness ==
    /\ lastCall.op = "batchAuthorizeSMEs"
    /\ lastCall.reason = ErrInvalidSME
    /\ \E a \in Senders \ {Owner} : ~authorizedSMEs[a]

(***************************************************************************)
(* Properties of the persisted records and of the logged events.           *)
(***************************************************************************)
\* C13: every record of every trail has a tokenId of 1 to 64 bytes, an amount greater
\* than zero, a non-zero contentHash, a non-empty transactionType, a non-empty
\* contentPointer and verified true.
C13_WellFormedRecords ==
    \A pos \in Positions :
        LET rec == RecordAt(pos) IN
        /\ Len(rec.tokenId) >= 1 /\ Len(rec.tokenId) <= MaxTokenIdLen
        /\ rec.amount > 0
        /\ rec.dataHash # ZeroHash
        /\ rec.transactionType # ""
        /\ rec.ipfsHash # ""
        /\ rec.isVerified = TRUE
        /\ rec.smeAddress = pos[1]

\* the ledger holds a record and has just refused an append without contentPointer
C13_Witness ==
    /\ totalTransactions = 1
    /\ lastCall.op = "logTransaction"
    /\ lastCall.reason = ErrIpfsHash

\* the step is the call logTransaction(s, t, ty, a, h, p) and the call succeeded
Appended(s, t, ty, a, h, p) ==
    /\ lastCall'.op = "logTransaction"
    /\ lastCall'.ok
    /\ logTransaction(s, t, ty, a, h, p)

\* C14: a successful append by principal P adds exactly one record, at the end of P's
\* trail, with the supplied tokenId, transactionType, amount, contentHash and
\* contentPointer, principal P, the current timestamp and verified true; P's count
\* and the total grow by exactly 1; the trails and counts of the other principals,
\* the authorization flags and the pause flag are unchanged.
C14_AppendEffect ==
    [][(lastCall'.op = "logTransaction" /\ lastCall'.ok) =>
          /\ \E s \in Senders, t \in TokenIds, f \in LogFields :
                Appended(s, t, f[1], f[2], f[3], f[4])
          /\ \A s \in Senders, t \in TokenIds, f \in LogFields :
                Appended(s, t, f[1], f[2], f[3], f[4]) =>
                   /\ auditTrails'[s] =
                         Append(auditTrails[s],
                                [tokenId |-> t, smeAddress |-> s, timestamp |-> blockTimestamp,
                                 transactionType |-> f[1], amount |-> f[2], dataHash |-> f[3],
                                 ipfsHash |-> f[4], isVerified |-> TRUE])
                   /\ transactionCounts'[s] = transactionCounts[s] + 1
                   /\ totalTransactions' = totalTransactions + 1
                   /\ \A b \in Addresses \ {s} :
                         /\ auditTrails'[b] = auditTrails[b]
                         /\ transactionCounts'[b] = transactionCounts[b]
                   /\ UNCHANGED <<authorizedSMEs, paused>>]_vars

\* the second append of a principal succeeded, in a later block than its first
C14_Witness ==
    /\ lastCall.op = "logTransaction"
    /\ lastCall.ok
    /\ \E a \in Senders :
          /\ Len(auditTrails[a]) = 2
          /\ auditTrails[a][1].timestamp < auditTrails[a][2].timestamp

\* the logged events, in the order of their emission
LoggedEvents == SelectSeq(events, LAMBDA e : e.name = "TransactionLogged")

\* the event carries the fields of the record
Carries(e, rec) ==
    /\ e.tokenId = rec.tokenId
    /\ e.sme = rec.smeAddress
    /\ e.timestamp = rec.timestamp
    /\ e.dataHash = rec.dataHash
    /\ e.transactionType = rec.transactionType
    /\ e.amount = rec.amount

\* C15: a successful append emits exactly one logged event, carrying the record's
\* tokenId, principal, timestamp, contentHash, transactionType and amount; a rejected
\* append emits none; the number of logged events equals totalTransactions and the
\* events correspond one to one to the persisted records.
C15_OneEventPerAppend ==
    /\ [](/\ Len(LoggedEvents) = totalTransactions
          /\ \A pos \in Positions :
                Cardinality({k \in 1..Len(LoggedEvents) :
                                Carries(LoggedEvents[k], RecordAt(pos))}) = 1
          /\ \A k \in 1..Len(LoggedEvents) :
                Cardinality({pos \in Positions :
                                Carries(LoggedEvents[k], RecordAt(pos))}) = 1)
    /\ [][lastCall'.op = "logTransaction" =>
             IF lastCall'.ok
             THEN /\ Len(events') = Len(events) + 1
                  /\ SubSeq(events', 1, Len(events)) = events
                  /\ events'[Len(events')].name = "TransactionLogged"
                  /\ \E s \in Senders :
                        /\ Len(auditTrails'[s]) = Len(auditTrails[s]) + 1
                        /\ Carries(events'[Len(events')], auditTrails'[s][Len(auditTrails'[s])])
             ELSE events' = events]_vars

\* two appends were logged and a third one was refused
C15_Witness ==
    /\ Len(LoggedEvents) = 2
    /\ lastCall.op = "logTransaction"
    /\ ~lastCall.ok

(***************************************************************************)
(* Properties of the read operations.                                      *)
(***************************************************************************)
\* two outcomes of one operation are the same outcome
SameAnswer(x, y) ==
    /\ x.ok = y.ok
    /\ x.reason = y.reason
    /\ x.ok => x.ret = y.ret

\* the answer (false, empty record)
NotFound ==
    [exists |-> FALSE,
     transaction |-> [tokenId |-> "", smeAddress |-> ZeroAddress, timestamp |-> 0,
                      transactionType |-> "", amount |-> 0, dataHash |-> ZeroHash,
                      ipfsHash |-> "", isVerified |-> FALSE]]

\* the records of principal p's trail with tokenId t
InTrail(p, t) == {auditTrails[p][i] : i \in {j \in 1..Len(auditTrails[p]) : auditTrails[p][j].tokenId = t}}

\* what verify is to answer for tokenId t and principal p
Verified(answer, p, t) ==
    /\ answer.ok
    /\ IF InTrail(p, t) # {}
       THEN /\ answer.ret.exists = TRUE
            /\ InTrail(p, t) = {answer.ret.transaction}
       ELSE answer.ret = NotFound

\* C16 (as claimed): verify(tokenId, principal) returns (true, record) exactly when
\* the principal's own trail holds a record with that tokenId, the record returned
\* being that one, and returns (false, empty record) whenever it does not.
C16_Original ==
    \A t \in TokenIds, p \in Addresses : Verified(verifyToken(t, p), p, t)

\* C16 (amended): for a tokenId of 1 to 64 bytes and a principal other than the zero
\* identity, verify returns (true, record) exactly when the principal's own trail
\* holds a record with that tokenId, the record returned being that one, and (false,
\* empty record) when it does not, also when another principal holds the tokenId; an
\* empty or too long tokenId or the zero identity makes the call fail, in that order.
C16_VerifyToken ==
    /\ \A t \in TokenIds, p \in Addresses :
          LET why == FirstViolated(<< <<Len(t) > 0, ErrTokenEmpty>>,
                                      <<Len(t) <= MaxTokenIdLen, ErrTokenTooLong>>,
                                      <<p # ZeroAddress, ErrInvalidSME>> >>)
          IN IF why = OK
             THEN /\ Verified(verifyToken(t, p), p, t)
                  /\ verifyToken(t, p).op = "verifyToken"
             ELSE verifyToken(t, p) = Reverted("verifyToken", why)
    /\ lastCall.op = "verifyToken" =>
          \E t \in TokenIds, p \in Addresses : SameAnswer(lastCall, verifyToken(t, p))

\* every well-formed tokenId is in use and verify answered (false, empty record): the
\* tokenId asked about is held by another principal
C16_Witness ==
    /\ lastCall.op = "verifyToken"
    /\ lastCall.ok
    /\ lastCall.ret = NotFound
    /\ \A t \in SubTokenIds : TokenUsed(t)

\* some append with tokenId t has succeeded: its event is in the log
EverAppended(t) == \E k \in 1..Len(LoggedEvents) : LoggedEvents[k].tokenId = t

\* what lookupByToken is to answer for tokenId t
LookedUp(answer, t) ==
    /\ answer.ok
    /\ answer.ret.exists = EverAppended(t)
    /\ IF EverAppended(t)
       THEN /\ Cardinality(RecordsOf(t)) = 1
            /\ \A pos \in RecordsOf(t) :
                  /\ answer.ret.transaction = RecordAt(pos)
                  /\ answer.ret = verifyToken(t, pos[1]).ret
       ELSE answer.ret = NotFound

\* C17 (as claimed): lookupByToken(tokenId) returns exists = true if and only if an
\* append with that tokenId has ever succeeded; the record returned is then the only
\* record with that tokenId, as verify returns it for the owner; otherwise it returns
\* (false, empty record).
C17_Original ==
    \A t \in TokenIds : LookedUp(getTransactionByTokenId(t), t)

\* C17 (amended): for a tokenId of 1 to 64 bytes, lookupByToken returns exists = true
\* if and only if an append with that tokenId has ever succeeded; the record returned
\* is then the only record with that tokenId, as verify returns it for the owner;
\* otherwise it returns (false, empty record); an empty or too long tokenId makes
\* the call fail.
C17_LookupByToken ==
    /\ \A t \in TokenIds :
          LET why == FirstViolated(<< <<Len(t) > 0, ErrTokenEmpty>>,
                                      <<Len(t) <= MaxTokenIdLen, ErrTokenTooLong>> >>)
          IN IF why = OK
             THEN /\ LookedUp(getTransactionByTokenId(t), t)
                  /\ getTransactionByTokenId(t).op = "getTransactionByTokenId"
             ELSE /\ ~EverAppended(t)
                  /\ getTransactionByTokenId(t) = Reverted("getTransactionByTokenId", why)
    /\ lastCall.op = "getTransactionByTokenId" =>
          \E t \in TokenIds : SameAnswer(lastCall, getTransactionByTokenId(t))

\* a lookup returned the record of a principal that is no longer authorized
C17_Witness ==
    /\ lastCall.op = "getTransactionByTokenId"
    /\ lastCall.ok
    /\ lastCall.ret.exists
    /\ ~authorizedSMEs[lastCall.ret.transaction.smeAddress]

\* the logged events of principal p, in the order of their emission
LoggedBy(p) == SelectSeq(LoggedEvents, LAMBDA e : e.sme = p)

\* C18: getTrail(principal) returns the principal's records in the order in which
\* their appends succeeded, the empty sequence for a principal without records,
\* authorized or not, and rejects the zero identity.
C18_GetTrail ==
    /\ getAuditTrail(ZeroAddress) = Reverted("getAuditTrail", ErrInvalidSME)
    /\ \A p \in Senders :
          LET answer == getAuditTrail(p) IN
          /\ answer.ok
          /\ answer.op = "getAuditTrail"
          /\ Len(answer.ret) = Len(LoggedBy(p))
          /\ \A k \in 1..Len(answer.ret) :
                /\ Carries(LoggedBy(p)[k], answer.ret[k])
                /\ answer.ret[k] = auditTrails[p][k]
          /\ (\A pos \in Positions : pos[1] # p) => answer.ret = <<>>
    /\ lastCall.op = "getAuditTrail" =>
          \E p \in Addresses : SameAnswer(lastCall, getAuditTrail(p))

\* a trail of two records was returned
C18_Witness ==
    /\ lastCall.op = "getAuditTrail"
    /\ lastCall.ok
    /\ Len(lastCall.ret) = 2

(***************************************************************************)
(* Properties of pause and unpause, and of the initial state.              *)
(***************************************************************************)
\* C19: pause and unpause succeed only for the administrator; a call of either by
\* another caller, authorized principal or not, is rejected and leaves the pause flag
\* unchanged; neither operation changes a trail, a counter, a token index or an
\* authorization flag.
C19_PauseAdminOnly ==
    /\ [](\A s \in Senders \ {Owner} : pauseRevert(s) # OK /\ unpauseRevert(s) # OK)
    /\ [][lastCall'.op \in {"pause", "unpause"} =>
             /\ UNCHANGED <<recordVars, authorizedSMEs>>
             /\ ~lastCall'.ok => paused' = paused
             /\ \A s \in Senders :
                   (pause(s) \/ unpause(s)) =>
                      /\ lastCall'.ok => s = Owner
                      /\ s # Owner => (~lastCall'.ok /\ paused' = paused)
                      /\ (lastCall'.ok /\ pause(s)) => (~paused /\ paused')
                      /\ (lastCall'.ok /\ unpause(s)) => (paused /\ ~paused')]_vars

\* an authorized principal that is not the administrator tried to pause a ledger that
\* holds a record, and was refused
C19_Witness ==
    /\ lastCall.op = "pause"
    /\ lastCall.reason = ErrNotOwner
    /\ ~paused
    /\ \E a \in Senders \ {Owner} : authorizedSMEs[a] /\ Len(auditTrails[a]) > 0

\* C20: immediately after the ledger is created the administrator is authorized,
\* every other principal is unauthorized, every trail is empty, every count and the
\* total are 0, no tokenId exists and the system is not paused.
C20_InitialState ==
    lastCall.op = "constructor" =>
       /\ authorizedSMEs[Owner] = TRUE
       /\ \A a \in Addresses \ {Owner} : authorizedSMEs[a] = FALSE
       /\ \A a \in Addresses : auditTrails[a] = <<>> /\ transactionCounts[a] = 0
       /\ totalTransactions = 0
       /\ \A t \in TokenIds :
             /\ tokenExists[t] = FALSE
             /\ getTransactionByTokenId(t).ok => ~getTransactionByTokenId(t).ret.exists
       /\ \A a \in Addresses : isAuthorizedSME(a).ret = (a = Owner)
       /\ paused = FALSE
       /\ events = <<[name |-> "SMEAuthorized", sme |-> Owner, status |-> TRUE]>>

\* the ledger has just been created
C20_Witness ==
    /\ lastCall.op = "constructor"
    /\ lastCall.ok
    /\ Len(events) = 1

(***************************************************************************)
(* Frame of the operations other than append.                              *)
(***************************************************************************)
\* the operations of the ledger other than logTransaction
OtherOperations ==
    {"authorizeSME", "batchAuthorizeSMEs", "pause", "unpause", "isAuthorizedSME",
     "getAuditTrail", "verifyToken", "verifyDataIntegrity", "getTransactionByTokenId",
     "getTransactionCount", "getTotalTransactions"}

\* C21: authorize, batchAuthorize, pause, unpause and the reads never change a trail,
\* the token-existence index, the token-to-principal index, a count or the total; a
\* step that changes one of them is a successful append, and no step changes or
\* removes a record that exists.
C21_AppendOnlyMutator ==
    [][/\ lastCall'.op \in OtherOperations => UNCHANGED recordVars
       /\ recordVars' # recordVars => (lastCall'.op = "logTransaction" /\ lastCall'.ok)
       /\ \A pos \in Positions :
             /\ pos[2] <= Len(auditTrails'[pos[1]])
             /\ auditTrails'[pos[1]][pos[2]] = RecordAt(pos)]_vars

\* a principal that holds a record was deauthorized by a batch
C21_Witness ==
    /\ lastCall.op = "batchAuthorizeSMEs"
    /\ lastCall.ok
    /\ \E a \in Senders : ~authorizedSMEs[a] /\ Len(auditTrails[a]) > 0

(***************************************************************************)
(* Properties of the failure paths of the commit pipeline.                 *)
(***************************************************************************)
\* C22: when the upload fails on every attempt of the bounded retry policy the
\* submission ends in StoreFailed; the pipeline has made no append for it, no step of
\* the run up to StoreFailed changes the ledger, and no orphan is recorded.
C22_StoreFailureNoOrphan ==
    /\ [](\A i \in SubIds :
             sub[i].state = "StoreFailed" =>
                /\ sub[i].storeAttempts = MaxAttempts
                /\ sub[i].ledgerAttempts = 0
                /\ sub[i].contentPointer = ""
                /\ sub[i].reply = "StoreFailed")
    /\ [][\A i \in SubIds :
             (sub'[i] # sub[i] /\ sub'[i].state \in {"Received", "HashComputed", "StoreFailed"}) =>
                UNCHANGED <<ledgerVars, lastCall, store, orphans>>]_vars
    /\ [][\A i \in SubIds :
             (sub[i].state = "HashComputed" /\ sub'[i] # sub[i]) =>
                /\ sub'[i].state = "HashComputed" <=>
                      (sub'[i].contentPointer = "" /\ sub'[i].storeAttempts < MaxAttempts)
                /\ sub'[i].state = "StoreFailed" <=>
                      (sub'[i].contentPointer = "" /\ sub'[i].storeAttempts = MaxAttempts)
                /\ sub'[i].state # "Stored" =>
                      UNCHANGED <<ledgerVars, lastCall, store, orphans>>]_vars

\* every upload of a submission failed, on a ledger that holds a record
C22_Witness ==
    /\ \E i \in SubIds : sub[i].state = "StoreFailed" /\ sub[i].storeAttempts = MaxAttempts
    /\ totalTransactions > 0

\* C23: when the ledger rejects the first append of a submission, the submission ends
\* in Rejected and the append is not retried, no ledger record is created for it, and
\* the stored document is flagged as an orphan and stays in the store.
C23_RejectionAfterUpload ==
    /\ [][\A i \in SubIds :
             ( /\ sub[i].state = "Stored"
               /\ sub[i].ledgerAttempts = 0
               /\ sub'[i].state \in {"Committed", "Rejected"}
               /\ ~lastCall'.ok )
             => /\ lastCall'.op = "logTransaction"
                /\ sub'[i].state = "Rejected"
                /\ sub'[i].reply = "Rejected"
                /\ sub'[i].reason = lastCall'.reason
                /\ sub'[i].ledgerAttempts = 1
                /\ UNCHANGED ledgerVars
                /\ sub[i].contentPointer \in orphans'
                /\ sub[i].doc \in store']_vars
    /\ [][\A i \in SubIds : sub[i].state = "Rejected" => sub'[i] = sub[i]]_vars
    /\ [][store \subseteq store' /\ orphans \subseteq orphans']_vars
    /\ [](\A i \in SubIds :
             (sub[i].state = "Rejected" /\ sub[i].ledgerAttempts > 0) =>
                /\ sub[i].contentPointer \in orphans
                /\ sub[i].doc \in store)

\* the first append of a submission of an unauthorized principal was rejected
C23_Witness ==
    \E i \in SubIds :
        /\ sub[i].state = "Rejected"
        /\ sub[i].reason = ErrNotAuthorized
        /\ sub[i].ledgerAttempts = 1
        /\ sub[i].contentPointer \in orphans

(***************************************************************************)
(* Properties of concurrent runs of the commit pipeline.                   *)
(***************************************************************************)
\* the states of a run between acquiring the key and its end
Active == {"Received", "HashComputed", "Stored", "LedgerPending"}

\* the runs for tokenId t that hold the key
Running(t) == {i \in SubIds : sub[i].tokenId = t /\ sub[i].state \in Active}

\* C24: for every tokenId at most one run is between acquiring the key and a
\* terminal state, so no two submissions of one tokenId upload or have an append
\* pending together; the key is released when the run reaches a terminal state, and
\* a key without a run is free for the next submission.
C24_PerKeyExclusion ==
    /\ [](\A t \in SubTokenIds :
             /\ Cardinality(Running(t)) <= 1
             /\ keyLock[t] = NoSubmission <=> Running(t) = {}
             /\ keyLock[t] # NoSubmission => Running(t) = {keyLock[t]}
             /\ (Running(t) = {} /\ \E i \in SubIds : sub[i].state = "Idle") =>
                   ENABLED (\E i \in SubIds, who \in Senders, d \in Docs : Submit(i, who, t, d)))
    /\ [][\A i \in SubIds :
             (sub[i].state \in Active /\ sub'[i].state \in Terminal) =>
                keyLock'[sub[i].tokenId] = NoSubmission]_vars

\* a submission took the key that an earlier submission of the same tokenId had held
\* until its terminal state
C24_Witness ==
    \E i \in SubIds, j \in SubIds :
        /\ i # j
        /\ sub[i].tokenId = sub[j].tokenId
        /\ sub[i].state \in Terminal
        /\ sub[j].state = "LedgerPending"

\* the ledger holds the record that the append of submission i creates
OwnRecord(i) ==
    \E pos \in Positions :
        /\ RecordAt(pos).tokenId = sub[i].tokenId
        /\ RecordAt(pos).smeAddress = sub[i].principal
        /\ RecordAt(pos).dataHash = sub[i].contentHash
        /\ RecordAt(pos).ipfsHash = sub[i].contentPointer

\* C25: with the retries exhausted a submission ends in StoreFailed if and only if no
\* document was stored, and in LedgerFailed(Stored) if and only if the document was
\* stored but the ledger append never succeeded; in the LedgerFailed case the stored
\* document is recorded for reconciliation; success is reported in neither case.
C25_FailureReporting ==
    \A i \in SubIds :
        /\ sub[i].state = "StoreFailed" <=>
              (sub[i].storeAttempts = MaxAttempts /\ sub[i].contentPointer = "")
        /\ sub[i].state = "StoreFailed" => sub[i].reply = "StoreFailed"
        /\ sub[i].state = "LedgerFailed" <=>
              ( /\ sub[i].ledgerAttempts = MaxAttempts
                /\ sub[i].reason = "TransientError"
                /\ sub[i].doc \in store
                /\ sub[i].contentPointer # "" )
        /\ sub[i].state = "LedgerFailed" =>
              /\ sub[i].reply = "LedgerFailed"
              /\ sub[i].contentPointer \in orphans
              /\ ~sub[i].ackLost
              /\ ~OwnRecord(i)

\* a submission ended in LedgerFailed, its document flagged as an orphan, while the
\* ledger holds the record its append created
C25_Witness ==
    \E i \in SubIds :
        /\ sub[i].state = "LedgerFailed"
        /\ sub[i].contentPointer \in orphans
        /\ sub[i].ackLost
        /\ OwnRecord(i)

\* C26: cancelling a submission before Stored leaves no stored document, no ledger
\* record, no backlog entry and a free key; cancelling it after Stored and before
\* Committed or Rejected keeps the document in the store and puts it in the
\* reconciliation backlog.
C26_CancellationSafety ==
    /\ [][\A i \in SubIds :
             (sub[i].state # "Cancelled" /\ sub'[i].state = "Cancelled") =>
                /\ keyLock'[sub[i].tokenId] = NoSubmission
                /\ UNCHANGED <<store, ledgerVars>>
                /\ IF sub[i].state \in {"Received", "HashComputed"}
                   THEN /\ sub[i].contentPointer = ""
                        /\ sub[i].ledgerAttempts = 0
                        /\ orphans' = orphans
                   ELSE /\ sub[i].state \in {"Stored", "LedgerPending"}
                        /\ sub[i].doc \in store'
                        /\ sub[i].contentPointer = PointerOf(sub[i].doc)
                        /\ sub[i].contentPointer \in orphans']_vars
    /\ [](\A i \in SubIds :
             sub[i].state = "Cancelled" =>
                IF sub[i].contentPointer = ""
                THEN sub[i].ledgerAttempts = 0
                ELSE sub[i].doc \in store /\ sub[i].contentPointer \in orphans)
    /\ [][store \subseteq store' /\ orphans \subseteq orphans']_vars

\* a submission was cancelled while its append was pending
C26_Witness ==
    \E i \in SubIds :
        /\ sub[i].state = "Cancelled"
        /\ sub[i].ledgerAttempts = 1
        /\ sub[i].contentPointer \in orphans

C28_MonotonicTimestamps ==
    /\ [](\A a \in Addresses :
             \A i \in 1..Len(auditTrails[a]), j \in 1..Len(auditTrails[a]) :
                i < j => auditTrails[a][i].timestamp <= auditTrails[a][j].timestamp)
    /\ [](\A pos \in Positions :
             RecordAt(pos).timestamp >= 1 /\ RecordAt(pos).timestamp <= blockTimestamp)
    /\ [][blockTimestamp' >= blockTimestamp]_vars
    /\ [][(lastCall'.op = "logTransaction" /\ lastCall'.ok) =>
             \E s \in Senders :
                /\ Len(auditTrails'[s]) = Len(auditTrails[s]) + 1
                /\ auditTrails'[s][Len(auditTrails'[s])].timestamp = blockTimestamp]_vars

\* a trail holds a record of the first block and, after it, one of the second
C28_Witness ==
    \E a \in Senders :
        /\ Len(auditTrails[a]) = 2
        /\ auditTrails[a][1].timestamp = 1
        /\ auditTrails[a][2].timestamp = 2

\* the authorization-changed events of principal a, in the order of their emission
AuthorizationsOf(a) ==
    SelectSeq(events, LAMBDA e : e.name = "SMEAuthorized" /\ e.sme = a)

\* the flag last set for principal a, false if none was set
LastSet(a) ==
    IF AuthorizationsOf(a) = <<>> THEN FALSE
    ELSE AuthorizationsOf(a)[Len(AuthorizationsOf(a))].status

\* C29: isAuthorized never fails, for the zero principal and for principals never
\* named in an authorize call as well; it returns the flag last set for the principal
\* by a successful authorize or batchAuthorize, or by the creation of the ledger for
\* the administrator, and false if none was set.
C29_IsAuthorized ==
    /\ \A a \in Addresses :
          /\ isAuthorizedSME(a).ok
          /\ isAuthorizedSME(a).ret = LastSet(a)
    /\ AuthorizationsOf(ZeroAddress) = <<>>
    /\ lastCall.op = "isAuthorizedSME" =>
          /\ lastCall.ok
          /\ \E a \in Addresses : lastCall.ret = LastSet(a)

\* the lookup answered false after the administrator had deauthorized itself
C29_Witness ==
    /\ lastCall.op = "isAuthorizedSME"
    /\ lastCall.ok
    /\ lastCall.ret = FALSE
    /\ \A a \in Addresses : ~authorizedSMEs[a]

\* C30: for every tokenId t, tokenExists[t] holds if and only if tokenToSME[t] is a
\* non-zero principal, if and only if exactly one record with tokenId t exists, and
\* that record is in the trail of tokenToSME[t]; lookupByToken never reports a
\* tokenId as existing without finding its record in the owner's trail.
C30_ReverseIndex ==
    \A t \in TokenIds :
        /\ tokenExists[t] <=> tokenToSME[t] # ZeroAddress
        /\ tokenExists[t] <=> Cardinality(RecordsOf(t)) = 1
        /\ Cardinality(RecordsOf(t)) <= 1
        /\ \A pos \in RecordsOf(t) : pos[1] = tokenToSME[t]
        /\ tokenExists[t] =>
              /\ getTransactionByTokenId(t).ok
              /\ getTransactionByTokenId(t).ret.exists
              /\ getTransactionByTokenId(t).ret.transaction.tokenId = t
              /\ getTransactionByTokenId(t).ret.transaction.smeAddress = tokenToSME[t]

\* two tokenIds are bound to two principals
C30_Witness ==
    /\ \A t \in SubTokenIds : tokenExists[t]
    /\ \E t \in SubTokenIds, u \in SubTokenIds : tokenToSME[t] # tokenToSME[u]

\* C31: every record in the trail of principal p has p as its principal, and p was
\* the caller of the append that created it and was authorized at that moment; no
\* caller adds a record to the trail of another principal or creates a record that
\* names another principal.
C31_RecordOwnership ==
    /\ [](\A pos \in Positions :
             /\ RecordAt(pos).smeAddress = pos[1]
             /\ pos[1] \in Senders)
    /\ [][\A s \in Senders, t \in TokenIds, f \in LogFields :
             Appended(s, t, f[1], f[2], f[3], f[4]) =>
                /\ authorizedSMEs[s]
                /\ Len(auditTrails'[s]) = Len(auditTrails[s]) + 1
                /\ auditTrails'[s][Len(auditTrails'[s])].smeAddress = s
                /\ \A b \in Addresses \ {s} : auditTrails'[b] = auditTrails[b]]_vars
    /\ [][\A b \in Addresses :
             auditTrails'[b] # auditTrails[b] =>
                /\ lastCall'.op = "logTransaction"
                /\ lastCall'.ok
                /\ authorizedSMEs[b]
                /\ \E t \in TokenIds, f \in LogFields :
                      logTransaction(b, t, f[1], f[2], f[3], f[4])]_vars

\* two principals hold a record each, one of them deauthorized since its append
C31_Witness ==
    /\ \A s \in Senders : Len(auditTrails[s]) = 1
    /\ \E s \in Senders : ~authorizedSMEs[s]

\* the step is a call of one of the administrative operations or of logTransaction
\* by principal s
CalledBy(s) ==
    \/ \E a \in Addresses, st \in BOOLEAN : authorizeSME(s, a, st)
    \/ \E smes \in SmeLists, sts \in StatusLists : batchAuthorizeSMEs(s, smes, sts)
    \/ pause(s)
    \/ unpause(s)
    \/ \E t \in TokenIds, f \in LogFields : logTransaction(s, t, f[1], f[2], f[3], f[4])

\* C32: the power of the administrator does not depend on its authorization flag:
\* the administrator may clear its own flag; from then on its appends are rejected as
\* not authorized, while its authorize, batchAuthorize, pause and unpause calls
\* succeed as before, so that it can authorize itself again; a principal other than
\* the administrator, authorized or not, never changes an authorization flag or the
\* pause flag.
C32_AdminIndependentOfFlag ==
    /\ [](authorizeSMERevert(Owner, Owner) = OK)
    /\ [](~authorizedSMEs[Owner] =>
             /\ \A t \in TokenIds, f \in LogFields :
                   logTransactionRevert(Owner, t, f[1], f[2], f[3], f[4]) = ErrNotAuthorized
             /\ \A a \in Addresses \ {ZeroAddress} : authorizeSMERevert(Owner, a) = OK
             /\ \A smes \in SmeLists, sts \in StatusLists :
                   (/\ Len(smes) = Len(sts)
                    /\ Len(smes) > 0
                    /\ \A i \in 1..Len(smes) : smes[i] # ZeroAddress) =>
                      batchAuthorizeSMEsRevert(Owner, smes, sts) = OK
             /\ ~paused => pauseRevert(Owner) = OK
             /\ paused => unpauseRevert(Owner) = OK)
    /\ [][(~authorizedSMEs[Owner] /\ authorizeSME(Owner, Owner, TRUE)) =>
             /\ lastCall'.ok
             /\ authorizedSMEs'[Owner]]_vars
    /\ [](\A s \in Senders \ {Owner} :
             /\ \A a \in Addresses : authorizeSMERevert(s, a) = ErrNotOwner
             /\ \A smes \in SmeLists, sts \in StatusLists :
                   batchAuthorizeSMEsRevert(s, smes, sts) = ErrNotOwner
             /\ pauseRevert(s) = ErrNotOwner
             /\ unpauseRevert(s) = ErrNotOwner)
    /\ [][(authorizedSMEs' # authorizedSMEs \/ paused' # paused) =>
             /\ lastCall'.ok
             /\ lastCall'.op \in {"authorizeSME", "batchAuthorizeSMEs", "pause", "unpause"}
             /\ CalledBy(Owner)
             /\ \A s \in Senders \ {Owner} : ~CalledBy(s)]_vars

\* the administrator cleared its own flag and has authorized itself again
C32_Witness ==
    /\ lastCall.op = "authorizeSME"
    /\ lastCall.ok
    /\ authorizedSMEs[Owner]
    /\ Len(AuthorizationsOf(Owner)) = 3
    /\ ~AuthorizationsOf(Owner)[2].status

\* the token ids the reads refuse: the empty one and those longer than 64 bytes
MalformedTokenIds == {t \in TokenIds : Len(t) = 0 \/ Len(t) > MaxTokenIdLen}

\* verifyToken, verifyDataIntegrity and getTransactionByTokenId revert on a
\* malformed token id; verifyToken, verifyDataIntegrity, getAuditTrail and
\* getTransactionCount revert on the zero address
RejectsMalformed ==
    /\ \A t \in MalformedTokenIds :
          /\ ~getTransactionByTokenId(t).ok
          /\ \A a \in Addresses :
                /\ ~verifyToken(t, a).ok
                /\ \A h \in ExpectedHashes : ~verifyDataIntegrity(t, a, h).ok
    /\ \A t \in TokenIds :
          /\ ~verifyToken(t, ZeroAddress).ok
          /\ \A h \in ExpectedHashes : ~verifyDataIntegrity(t, ZeroAddress, h).ok
    /\ ~getAuditTrail(ZeroAddress).ok
    /\ ~getTransactionCount(ZeroAddress).ok

\* the reads that take no expected hash answer for well-formed arguments
AnswersWellFormed ==
    \A t \in TokenIds \ MalformedTokenIds, a \in Addresses \ {ZeroAddress} :
        /\ verifyToken(t, a).ok
        /\ getTransactionByTokenId(t).ok
        /\ getAuditTrail(a).ok
        /\ getTransactionCount(a).ok

\* C33 as stated: the reads reject a malformed token id and the zero address, and
\* for every well-formed token id and non-zero principal they never fail
C33_Original ==
    /\ RejectsMalformed
    /\ AnswersWellFormed
    /\ \A t \in TokenIds \ MalformedTokenIds, a \in Addresses \ {ZeroAddress},
          h \in ExpectedHashes : verifyDataIntegrity(t, a, h).ok

\* C33: verifyToken, verifyDataIntegrity and getTransactionByTokenId fail when the
\* token id is empty or longer than 64 bytes; verifyToken, verifyDataIntegrity,
\* getAuditTrail and getTransactionCount fail when the principal is the zero address;
\* for a well-formed token id and a non-zero principal the reads never fail, paused
\* or not, provided the expected hash given to verifyDataIntegrity is not zero; with
\* a zero expected hash verifyDataIntegrity fails for well-formed arguments too.
C33_MalformedReadsRejected ==
    /\ RejectsMalformed
    /\ AnswersWellFormed
    /\ \A t \in TokenIds \ MalformedTokenIds, a \in Addresses \ {ZeroAddress},
          h \in ExpectedHashes : verifyDataIntegrity(t, a, h).ok <=> h # ZeroHash
    /\ (lastCall.op \in {"verifyToken", "verifyDataIntegrity", "getTransactionByTokenId",
                         "getAuditTrail", "getTransactionCount"} /\ ~lastCall.ok) =>
          lastCall.reason \in {ErrTokenEmpty, ErrTokenTooLong, ErrInvalidSME, ErrExpectedHash}

\* while the ledger is paused and holds a record, a lookup by an overlong token id
\* was rejected
C33_Witness ==
    /\ paused
    /\ totalTransactions > 0
    /\ lastCall.op = "getTransactionByTokenId"
    /\ ~lastCall.ok
    /\ lastCall.reason = ErrTokenTooLong

\* C34 as stated: with a zero expected hash verifyDataIntegrity is rejected with the
\* invalid-expected-hash error for every token id and every principal
C34_Original ==
    \A t \in TokenIds, a \in Addresses :
        verifyDataIntegrity(t, a, ZeroHash) = Reverted("verifyDataIntegrity", ErrExpectedHash)

\* C34: verifyDataIntegrity with a zero expected hash is rejected for every token id
\* and every principal, whether the record exists or not: with the error of the token
\* id if the token id is malformed, else with the invalid-principal error if the
\* principal is the zero address, else with the invalid-expected-hash error; it never
\* returns false or true for a zero hash, and no stored record has a zero hash.
C34_ZeroExpectedHash ==
    /\ \A t \in TokenIds, a \in Addresses :
          /\ ~verifyDataIntegrity(t, a, ZeroHash).ok
          /\ verifyDataIntegrity(t, a, ZeroHash).reason =
                IF t \in MalformedTokenIds THEN validTokenId(t)
                ELSE IF a = ZeroAddress THEN ErrInvalidSME
                ELSE ErrExpectedHash
    /\ \A pos \in Positions :
          /\ RecordAt(pos).dataHash # ZeroHash
          /\ verifyDataIntegrity(RecordAt(pos).tokenId, pos[1], ZeroHash) =
                Reverted("verifyDataIntegrity", ErrExpectedHash)
    /\ (lastCall.op = "verifyDataIntegrity" /\ lastCall.ok /\ lastCall.ret) =>
          \E pos \in Positions, h \in ExpectedHashes \ {ZeroHash} :
              /\ RecordAt(pos).dataHash = h
              /\ SameAnswer(lastCall, verifyDataIntegrity(RecordAt(pos).tokenId, pos[1], h))

\* a zero expected hash was rejected while every well-formed token id names a record
C34_Witness ==
    /\ lastCall.op = "verifyDataIntegrity"
    /\ ~lastCall.ok
    /\ lastCall.reason = ErrExpectedHash
    /\ \A t \in TokenIds \ MalformedTokenIds : tokenExists[t]

\* C35: across every step totalTransactions and every transactionCounts[p] never
\* decrease and grow by at most 1; tokenExists[t] never goes from true back to false
\* and tokenToSME[t], once set to a principal, never changes.
C35_MonotonicGrowth ==
    /\ [][/\ totalTransactions' >= totalTransactions
          /\ totalTransactions' <= totalTransactions + 1]_vars
    /\ [][\A p \in Addresses :
             /\ transactionCounts'[p] >= transactionCounts[p]
             /\ transactionCounts'[p] <= transactionCounts[p] + 1]_vars
    /\ [][\A t \in TokenIds :
             /\ tokenExists[t] => tokenExists'[t]
             /\ tokenToSME[t] # ZeroAddress => tokenToSME'[t] = tokenToSME[t]]_vars
    /\ [](/\ totalTransactions >= 0
          /\ \A p \in Addresses : transactionCounts[p] >= 0)

\* both principals have appended, and an append with a token id already bound was
\* rejected
C35_Witness ==
    /\ \A p \in Senders : transactionCounts[p] = 1
    /\ totalTransactions = 2
    /\ lastCall.op = "logTransaction"
    /\ lastCall.reason = ErrTokenExists

\* what an accepted authorizeSME(sme, status) makes of the flags and the events
AfterAuthorize(st, sme, status) ==
    [flags |-> [st.flags EXCEPT ![sme] = status],
     events |-> Append(st.events, SMEAuthorized(sme, status))]

\* the accepted calls authorizeSME(smes[i], sts[i]), ..., one after another
RECURSIVE OneAfterAnother(_, _, _, _)
OneAfterAnother(st, smes, sts, i) ==
    IF i > Len(smes) THEN st
    ELSE OneAfterAnother(AfterAuthorize(st, smes[i], sts[i]), smes, sts, i + 1)

\* C36: batchAuthorize applies its pairs in list order: a principal listed more than
\* once in an accepted batch ends with the status of its last occurrence; an accepted
\* batch leaves the flags and the events as the single authorize calls of its pairs,
\* made one after another in list order, leave them, with one event per list entry.
C36_BatchAsSingles ==
    /\ [][(lastCall'.op = "authorizeSME" /\ lastCall'.ok) =>
             \A a \in Addresses, status \in BOOLEAN :
                authorizeSME(Owner, a, status) =>
                   [flags |-> authorizedSMEs', events |-> events'] =
                      AfterAuthorize([flags |-> authorizedSMEs, events |-> events], a, status)]_vars
    /\ [][(lastCall'.op = "batchAuthorizeSMEs" /\ lastCall'.ok) =>
             /\ \E smes \in SmeLists, sts \in StatusLists : batchAuthorizeSMEs(Owner, smes, sts)
             /\ \A smes \in SmeLists, sts \in StatusLists :
                   batchAuthorizeSMEs(Owner, smes, sts) =>
                      /\ \A i \in 1..Len(smes) : authorizeSMERevert(Owner, smes[i]) = OK
                      /\ [flags |-> authorizedSMEs', events |-> events'] =
                            OneAfterAnother([flags |-> authorizedSMEs, events |-> events],
                                            smes, sts, 1)
                      /\ Len(events') = Len(events) + Len(smes)
                      /\ \A i \in 1..Len(smes) :
                            /\ events'[Len(events) + i] = SMEAuthorized(smes[i], sts[i])
                            /\ (\A j \in (i + 1)..Len(smes) : smes[j] # smes[i]) =>
                                  authorizedSMEs'[smes[i]] = sts[i]
                      /\ UNCHANGED <<recordVars, paused>>]_vars

\* an accepted batch listed a principal twice, with two statuses
C36_Witness ==
    /\ lastCall.op = "batchAuthorizeSMEs"
    /\ lastCall.ok
    /\ Len(events) = 3
    /\ events[2].sme = events[3].sme
    /\ events[2].status # events[3].status
    /\ authorizedSMEs[events[3].sme] = events[3].status

(***************************************************************************)
(* Properties of the App component.                                        *)
(***************************************************************************)
\* C37: in every state of the App component isConnected is true exactly when account
\* is a non-empty address; and after a disconnect event or an accountsChanged event
\* with an empty list account is empty, isConnected is false and smeData is null.
C37_WalletConnectionState ==
    /\ [](isConnected <=> account # NoAccount)
    /\ [][(handleDisconnect \/ (AccountsChanged /\ walletAccounts' = <<>>)) =>
             /\ account' = NoAccount
             /\ ~isConnected'
             /\ smeData' = NoData]_vars

\* initializeWeb3 has ended without an account, and the page holds an account without
\* being connected
C37_Witness ==
    /\ initializing.pc = "done"
    /\ connecting.pc = "idle"
    /\ pendingChecks = {}
    /\ account # NoAccount
    /\ ~isConnected

(***************************************************************************)
(* Properties of the start script.                                         *)
(***************************************************************************)
\* the script is in the loop of wait_for_service for this service
WaitingFor(service) == AtCommand /\ Command = Wait(service)

\* C38: every wait_for_service loop ends after at most 30 polls, with success as soon
\* as the service is seen Up and with failure otherwise; the script ending at the first
\* failure, the backend is started only after postgres, redis and ipfs were each seen
\* Up, the frontend only after the backend was seen Up, nginx only after the frontend
\* was seen Up, and the final success message is printed only if every service waited
\* for was seen Up.
C38_StartupOrdering ==
    /\ [](attempt >= 1 /\ attempt <= max_attempts + 1)
    /\ \A service \in Waited : WaitingFor(service) ~> ~WaitingFor(service)
    /\ [][\A service \in Waited :
             WaitingFor(service) =>
                /\ service \notin observedUp
                /\ service \in observedUp' <=> (exitStatus' = "running" /\ scriptPc' = scriptPc + 1)
                /\ service \in observedUp' => attempt <= max_attempts
                /\ exitStatus' = "failed" <=> (service \notin observedUp' /\ attempt = max_attempts + 1)
                /\ (service \notin observedUp' /\ attempt <= max_attempts) =>
                      /\ WaitingFor(service)'
                      /\ attempt' = attempt + 1]_vars
    /\ []("backend" \in started => Infrastructure \subseteq observedUp)
    /\ []("frontend" \in started => "backend" \in observedUp)
    /\ []("nginx" \in started => "frontend" \in observedUp)
    /\ [](announced => Waited \subseteq observedUp)
    /\ [](exitStatus = "ok" => announced)

\* the backend was started and not seen Up in 30 polls: the script ended there
C38_Witness ==
    /\ exitStatus = "failed"
    /\ attempt = max_attempts + 1
    /\ "backend" \in started
    /\ "backend" \notin observedUp
    /\ "frontend" \notin started
    /\ ~announced

====
